---- MODULE Spec2Model ----
(***************************************************************************)
(* Authentication and authorization core of vaultwarden (src/src/auth.rs). *)
(* Token issue/decode, the request guards Headers -> OrgHeaders ->         *)
(* Admin/Manager/ManagerLoose/Owner/OrgMember, and the security-stamp      *)
(* exception check, as a state machine over the stored user, membership    *)
(* and the wall clock; the key manager (initialize_keys) over the key file *)
(* and the process's key cells; and the login and admin rate limiters      *)
(* (src/src/ratelimit.rs) over their keyed buckets.                        *)
(***************************************************************************)
EXTENDS Integers, Sequences, FiniteSets, TLC

VARIABLES
    now,        \* wall clock, seconds since epoch (Utc::now / get_current_timestamp)
    users,      \* stored User rows: uuid -> [security_stamp, stamp_exception]
    devices,    \* stored Device rows: the set of <<device uuid, user uuid>>
    members,    \* stored Membership rows: <<user, org>> -> [atype, status]
    access,     \* collection access: the set of <<user, org, collection>> granted
    last,       \* the call being answered: its inputs, the state it read, its outcome
    buckets,    \* rate limiter state: <<limiter, ip>> -> stored arrival time, 0 when the key is new
    log,        \* the rate-limit checks completed so far, in order
    procs,      \* concurrent rate-limit checks: each worker's position in check_key
    round,      \* the state the concurrent checks under way started from
    keyFile,    \* the private key file: its content and whether it can be written
    keys,       \* PRIVATE_ED25519_KEY and PUBLIC_ED25519_KEY of the running process
    boot        \* what the key manager has done: keys generated, first keys set, token issued

storeVars == <<users, devices, members, access>>
limiterVars == <<buckets, log, procs, round>>
keyVars == <<keyFile, keys, boot>>

vars == <<now, users, devices, members, access, last, buckets, log, procs, round,
          keyFile, keys, boot>>

\* Option<T>: None is the empty sequence, Some(x) the sequence of x alone
None == <<>>
Some(x) == <<x>>
IsSome(o) == o # <<>>
Unwrap(o) == o[1]

\* The element of a one-element set: {F(x) : x \in {e}} evaluates e once for F
The(S) == CHOOSE x \in S : TRUE

(***************************************************************************)
(* Token purposes, issuers and claim shapes                                *)
(***************************************************************************)
Purposes ==
    {"login", "invite", "emergencyaccessinvite", "delete", "verifyemail",
     "admin", "send", "api.organization", "file_download", "register_verify"}

\* CONFIG.domain_origin(), one fixed origin for the process
DomainOrigin == "https://vw.example"

\* format!("{}|<tag>", CONFIG.domain_origin()): the issuer is origin plus tag
Issuer(p) == <<DomainOrigin, p>>

\* The claim struct each decode_* deserializes into
ClaimType(p) ==
    CASE p = "login" -> "LoginJwtClaims"
      [] p = "invite" -> "InviteJwtClaims"
      [] p = "emergencyaccessinvite" -> "EmergencyAccessInviteJwtClaims"
      [] p = "api.organization" -> "OrgApiKeyLoginJwtClaims"
      [] p = "file_download" -> "FileDownloadClaims"
      [] p = "register_verify" -> "RegisterVerifyClaims"
      [] OTHER -> "BasicJwtClaims"

ClaimTypes == {ClaimType(p) : p \in Purposes}

\* Fields a struct serializes (every field, Option fields included)
FieldsOf(ty) ==
    CASE ty = "LoginJwtClaims" ->
            {"nbf", "exp", "iss", "sub", "premium", "name", "email",
             "email_verified", "sstamp", "device", "scope", "amr"}
      [] ty = "InviteJwtClaims" ->
            {"nbf", "exp", "iss", "sub", "email", "org_id", "member_id", "invited_by_email"}
      [] ty = "EmergencyAccessInviteJwtClaims" ->
            {"nbf", "exp", "iss", "sub", "email", "emer_id", "grantor_name", "grantor_email"}
      [] ty = "OrgApiKeyLoginJwtClaims" ->
            {"nbf", "exp", "iss", "sub", "client_id", "client_sub", "scope"}
      [] ty = "FileDownloadClaims" ->
            {"nbf", "exp", "iss", "sub", "file_id"}
      [] ty = "RegisterVerifyClaims" ->
            {"nbf", "exp", "iss", "sub", "name", "verified"}
      [] OTHER -> {"nbf", "exp", "iss", "sub"}

\* Fields of type Option<_>: absent in the payload deserializes to None
OptionalFieldsOf(ty) ==
    CASE ty = "InviteJwtClaims" -> {"invited_by_email"}
      [] ty = "RegisterVerifyClaims" -> {"name"}
      [] OTHER -> {}

\* serde derive(Deserialize): unknown fields are ignored, every non-Option field is required
Deserializes(payloadType, ty) ==
    (FieldsOf(ty) \ OptionalFieldsOf(ty)) \subseteq FieldsOf(payloadType)

(***************************************************************************)
(* Time                                                                    *)
(***************************************************************************)
\* validation.leeway = 30
Leeway == 30

\* CONFIG.invitation_expiration_hours(), CONFIG.admin_session_lifetime() (minutes)
InvitationExpirationHours == 120
AdminSessionLifetime == 20

\* Seconds a token of purpose p lives: exp - nbf at issue
Lifetime(p) ==
    CASE p = "login" -> 2 * 3600
      [] p \in {"invite", "emergencyaccessinvite", "delete", "verifyemail"} ->
            InvitationExpirationHours * 3600
      [] p = "admin" -> AdminSessionLifetime * 60
      [] p = "send" -> 2 * 60
      [] p = "api.organization" -> 1 * 3600
      [] p = "file_download" -> 5 * 60
      [] p = "register_verify" -> 30 * 60

\* The instant tokens of the model are issued at, late enough for the clock to be
\* set more than Leeway before it
IssueTime == Leeway + 1

\* Clock readings around the validity window of a token of purpose p issued at IssueTime
WindowTimes(p) ==
    {0, 1, IssueTime,
     IssueTime + Lifetime(p), IssueTime + Lifetime(p) + Leeway,
     IssueTime + Lifetime(p) + Leeway + 1}

JwtTimes == UNION {WindowTimes(p) : p \in Purposes}

(***************************************************************************)
(* Keys and tokens                                                         *)
(***************************************************************************)
\* The key pair the process holds (PRIVATE_ED25519_KEY / PUBLIC_ED25519_KEY) and
\* another pair the server does not hold
ServerKey == "key_server"
OtherKey == "key_other"

PRIVATE_ED25519_KEY == ServerKey
PUBLIC_ED25519_KEY == ServerKey

\* The claims a token carries. ty is the struct that was serialized; sstamp is -1
\* and device "-" in every struct but LoginJwtClaims.
MkClaims(ty, iss, nbf, exp, sub, sstamp, device) ==
    [ty |-> ty, iss |-> iss, nbf |-> nbf, exp |-> exp, sub |-> sub,
     sstamp |-> sstamp, device |-> device]

\* generate_*_claims: nbf is the current time, exp the current time plus the lifetime
generate_claims(p, time_now, sub) ==
    MkClaims(ClaimType(p), Issuer(p), time_now, time_now + Lifetime(p), sub, -1, "-")

\* LoginJwtClaims as built at login for a user, a device and the user's stamp
generate_login_claims(time_now, user_id, device_id, stamp) ==
    MkClaims("LoginJwtClaims", Issuer("login"), time_now,
             time_now + Lifetime("login"), user_id, stamp, device_id)

\* A token string: header.payload.signature. sig names the key whose signature over
\* exactly this header and payload the third part is ("bad": of no key); parts is
\* FALSE for a string that is not three dot-separated base64 parts; ws is TRUE when
\* the string holds whitespace characters.
MkToken(claims, sig, parts, ws) ==
    [claims |-> claims, alg |-> "EdDSA", sig |-> sig, parts |-> parts, ws |-> ws]

\* serde Serialize / Deserialize of a claim struct: the payload holds the fields of
\* the struct that was serialized, and a struct read from a payload holds its own
\* fields only (sstamp and device are fields of LoginJwtClaims alone)
Serialize(claims) ==
    [claims EXCEPT !.sstamp = IF "sstamp" \in FieldsOf(claims.ty) THEN @ ELSE -1,
                   !.device = IF "device" \in FieldsOf(claims.ty) THEN @ ELSE "-"]

Deserialize(payload, ty) ==
    [payload EXCEPT !.ty = ty,
                    !.sstamp = IF "sstamp" \in FieldsOf(ty) THEN @ ELSE -1,
                    !.device = IF "device" \in FieldsOf(ty) THEN @ ELSE "-"]

\* jsonwebtoken::encode(&JWT_HEADER, claims, key)
encode_jwt_with(claims, enc) == MkToken(Serialize(claims), enc, TRUE, FALSE)

encode_jwt(claims) == encode_jwt_with(claims, PRIVATE_ED25519_KEY)

Ok(v) == [ok |-> TRUE, err |-> "", claims |-> Some(v)]
Err(msg) == [ok |-> FALSE, err |-> msg, claims |-> None]

\* jsonwebtoken::decode(&token, key, &validation): the ErrorKind, or "" on success.
\* Signature first, then the payload into T, then exp, nbf and iss (iss = {}: the
\* issuer is not validated).
jsonwebtoken_decode(token, key, leeway, validate_exp, validate_nbf, iss, ty, t) ==
    IF ~token.parts THEN "InvalidToken"
    ELSE IF token.ws \/ token.alg = "undecodable" THEN "Base64"
    ELSE IF token.alg # "EdDSA" THEN "InvalidAlgorithm"
    ELSE IF token.sig # key THEN "InvalidSignature"
    ELSE IF ~Deserializes(token.claims.ty, ty) THEN "Json"
    ELSE IF validate_exp /\ token.claims.exp < t - leeway THEN "ExpiredSignature"
    ELSE IF validate_nbf /\ token.claims.nbf > t + leeway THEN "ImmatureSignature"
    ELSE IF iss # {} /\ token.claims.iss \notin iss THEN "InvalidIssuer"
    ELSE ""

\* token.replace(char::is_whitespace, "")
StripWhitespace(token) == [token EXCEPT !.ws = FALSE]

decode_jwt_no_issuer(token, issuer, ty, t) ==
    LET kind == jsonwebtoken_decode(StripWhitespace(token), PUBLIC_ED25519_KEY, Leeway,
                                    TRUE, TRUE, {}, ty, t)
    IN  IF kind = "" THEN Ok(token.claims) ELSE Err("Error decoding JWT")

decode_jwt_no_leeway(token, issuer, ty, t) ==
    LET kind == jsonwebtoken_decode(StripWhitespace(token), PUBLIC_ED25519_KEY, 0,
                                    TRUE, TRUE, {issuer}, ty, t)
    IN  IF kind = "" THEN Ok(token.claims) ELSE Err("Error decoding JWT")

\* decode_jwt with the signature not verified
decode_jwt_with_unverified(token, issuer, ty, t, dec) ==
    LET kind == jsonwebtoken_decode(StripWhitespace(token), token.sig, Leeway,
                                    TRUE, TRUE, {issuer}, ty, t)
    IN  IF kind = "" THEN Ok(Deserialize(token.claims, ty)) ELSE Err("Error decoding JWT")

\* decode_jwt with one reason for every failure
decode_jwt_with_one_reason(token, issuer, ty, t, dec) ==
    LET kind == jsonwebtoken_decode(StripWhitespace(token), dec, Leeway,
                                    TRUE, TRUE, {issuer}, ty, t)
    IN  IF kind = "" THEN Ok(Deserialize(token.claims, ty)) ELSE Err("Error decoding JWT")

\* decode_jwt in a process whose PUBLIC_ED25519_KEY holds dec
decode_jwt_with(token, issuer, ty, t, dec) ==
    LET kind == jsonwebtoken_decode(StripWhitespace(token), dec, Leeway,
                                    TRUE, TRUE, {issuer}, ty, t)
    IN  CASE kind = "" -> Ok(Deserialize(token.claims, ty))
          [] kind = "InvalidToken" -> Err("Token is invalid")
          [] kind = "InvalidIssuer" -> Err("Issuer is invalid")
          [] kind = "ExpiredSignature" -> Err("Token has expired")
          [] OTHER -> Err("Error decoding JWT")

decode_jwt(token, issuer, ty, t) ==
    decode_jwt_with(token, issuer, ty, t, PUBLIC_ED25519_KEY)

\* decode_login, decode_invite, ..., decode_register_verify
decode_purpose(p, token, t) == decode_jwt(token, Issuer(p), ClaimType(p), t)

decode_login(token, t) == decode_purpose("login", token, t)

(***************************************************************************)
(* Stored entities                                                         *)
(***************************************************************************)
UserIds == {"u1", "u2"}
DeviceIds == {"d1", "d2"}
OrgIds == {"o1", "o2"}
CollectionIds == {"c1", "c2"}
Routes == {"post_email", "get_sync"}

\* uuid::Uuid::parse_str(s).is_ok(): the ids of the model are well-formed, "junk" is not
Uuid_parse_str_is_ok(s) == s \in UserIds \cup DeviceIds \cup OrgIds \cup CollectionIds

\* What a derivation reads: the stored rows and the clock
DB == [users |-> users, devices |-> devices, members |-> members,
       access |-> access, now |-> now]

\* user.stamp_exception is Option<String>. A stored string is kept with what it
\* parses to: parses is FALSE for a string that is no UserStampException JSON.
\* UserStampException { routes, security_stamp, expire }
MkStampException(routes, stamp, expire) ==
    Some([parses |-> TRUE, routes |-> routes, security_stamp |-> stamp, expire |-> expire])

\* user.stamp_exception.as_deref().and_then(|s| serde_json::from_str(s).ok())
ParseStampException(s) ==
    IF s = None THEN None ELSE IF Unwrap(s).parses THEN s ELSE None

\* A stored User row
MkUser(stamp, exception) == [security_stamp |-> stamp, stamp_exception |-> exception]

\* User::reset_stamp_exception
reset_stamp_exception(user) == [user EXCEPT !.stamp_exception = None]

\* User::save: the whole row is written under the user's uuid
User_save(us, user) ==
    [us EXCEPT ![user.uuid] = MkUser(user.security_stamp, user.stamp_exception)]

\* Device::find_by_uuid_and_user
Device_find_by_uuid_and_user(db, device_id, user_id) ==
    IF <<device_id, user_id>> \in db.devices
    THEN Some([uuid |-> device_id, user_uuid |-> user_id]) ELSE None

\* User::find_by_uuid
User_find_by_uuid(db, user_id) ==
    IF user_id \in DOMAIN db.users
    THEN Some([uuid |-> user_id, security_stamp |-> db.users[user_id].security_stamp,
               stamp_exception |-> db.users[user_id].stamp_exception])
    ELSE None

\* Membership::find_by_user_and_org
Membership_find_by_user_and_org(db, user_id, org_id) ==
    IF <<user_id, org_id>> \in DOMAIN db.members
    THEN Some([user_uuid |-> user_id, org_uuid |-> org_id,
               atype |-> db.members[<<user_id, org_id>>].atype,
               status |-> db.members[<<user_id, org_id>>].status])
    ELSE None

\* Collection::can_access_collection(membership, col_id)
Collection_can_access_collection(db, m, col_id) ==
    <<m.user_uuid, m.org_uuid, col_id>> \in db.access

\* MembershipType: Owner = 0, Admin = 1, User = 2, Manager = 3; "-" is from_i32's None
MembershipType_from_i32(n) ==
    CASE n = 0 -> "Owner" [] n = 1 -> "Admin" [] n = 2 -> "User" [] n = 3 -> "Manager"
      [] OTHER -> "-"

\* MembershipStatus: Invited = 0, Accepted = 1, Confirmed = 2; Revoked (-1) and every
\* other number give from_i32's None, "-"
MembershipStatus_from_i32(n) ==
    CASE n = 0 -> "Invited" [] n = 1 -> "Accepted" [] n = 2 -> "Confirmed"
      [] OTHER -> "-"

\* Ord for MembershipType: Owner > Admin > Manager > User
AccessLevel(ty) ==
    CASE ty = "Owner" -> 3 [] ty = "Admin" -> 2 [] ty = "Manager" -> 1 [] ty = "User" -> 0

TypeGe(a, b) == AccessLevel(a) >= AccessLevel(b)

(***************************************************************************)
(* Requests                                                                *)
(***************************************************************************)
\* What the guards read of a request. auth: the Authorization header, None or
\* Some([prefix, token]) for the header value prefix ++ token string; route: the
\* matched route's name, None when the route has none; p1, p3: path segments 1
\* and 3; qorg, qcol: the query values organizationId and collectionId (None when
\* absent); conns: how many of the request's DbConn acquisitions succeed.
MkRequest(auth, route, p1, qorg, p3, qcol, conns) ==
    [auth |-> auth, route |-> route, p1 |-> p1, qorg |-> qorg, p3 |-> p3,
     qcol |-> qcol, conns |-> conns]

\* a.rsplit("Bearer ").next(): what follows the last "Bearer ", the whole value when
\* there is none. A value that keeps another scheme word in front of the token keeps
\* it in the first token part, which then decodes to no header.
access_token(a) ==
    IF a.prefix \in {"Bearer ", ""} THEN a.token
    ELSE [a.token EXCEPT !.alg = "undecodable"]

\* An outcome of a guard: ok, the reason of a failure, the lookups and checks made
\* in order, the user rows afterwards, the context built (Some on success)
Success(ops, us, ctx) ==
    [ok |-> TRUE, err |-> "", ops |-> ops, users |-> us, ctx |-> Some(ctx)]
Failure(msg, ops, us) ==
    [ok |-> FALSE, err |-> msg, ops |-> ops, users |-> us, ctx |-> None]

(***************************************************************************)
(* Headers                                                                 *)
(***************************************************************************)
stamp_exception_expired_at(t, ex) == t >= ex.expire

\* Utc::now().timestamp() > stamp_exception.expire
stamp_exception_expired(t, ex) == t > ex.expire

\* stamp_exception.routes.contains(&current_route.to_string())
routes_contains_any(ex, current_route) == TRUE

routes_contains(ex, current_route) == current_route \in ex.routes

\* stamp_exception.security_stamp != claims.sstamp
exception_stamp_differs_never(ex, claims) == FALSE

exception_stamp_differs(ex, claims) == ex.security_stamp # claims.sstamp

\* The expired branch: the exception is cleared, the user saved (an error of the
\* save is logged only), and the request fails
Headers_expired_exception_save_error(db, user, ops, save_ok) ==
    IF save_ok
    THEN Failure("Stamp exception is expired", Append(ops, "User::save"),
                 User_save(db.users, reset_stamp_exception(user)))
    ELSE Failure("Error updating user", Append(ops, "User::save"), db.users)

Headers_expired_exception(db, user, ops, save_ok) ==
    Failure("Stamp exception is expired", Append(ops, "User::save"),
            IF save_ok THEN User_save(db.users, reset_stamp_exception(user))
            ELSE db.users)

\* The stamp check of Headers::from_request, once device and user are found.
\* save_ok: whether user.save succeeds.
\* The exception that lets a request through is cleared and the user saved
exception_accepts_once(db, user, ops, ctx) ==
    Success(Append(ops, "User::save"), User_save(db.users, reset_stamp_exception(user)), ctx)

\* None of the three checks of the exception failed: the request goes on to
\* Outcome::Success, the exception is left as it is
exception_accepts(db, user, ops, ctx) == Success(ops, db.users, ctx)

\* The stamp check with the exception cleared and the user saved in every branch
\* that finds the exception of no use
Headers_stamp_check_clearing_invalid(req, db, claims, device, user, ops, save_ok) ==
    LET stamp_exception == ParseStampException(user.stamp_exception)
        ex == Unwrap(stamp_exception)
        cleared == User_save(db.users, reset_stamp_exception(user))
    IN  IF user.security_stamp = claims.sstamp
        THEN Success(ops, db.users, [device |-> device, user |-> user])
        ELSE IF ~IsSome(stamp_exception)
        THEN Failure("Invalid security stamp", ops, db.users)
        ELSE IF req.route = None
        THEN Failure("Error getting current route for stamp exception", ops, db.users)
        ELSE IF stamp_exception_expired(db.now, ex)
        THEN Headers_expired_exception(db, user, ops, save_ok)
        ELSE IF ~routes_contains(ex, Unwrap(req.route))
        THEN Failure("Invalid security stamp: Current route and exception route do not match",
                     Append(ops, "User::save"), cleared)
        ELSE IF exception_stamp_differs(ex, claims)
        THEN Failure("Invalid security stamp for matched stamp exception",
                     Append(ops, "User::save"), cleared)
        ELSE Success(ops, db.users, [device |-> device, user |-> user])

Headers_stamp_check(req, db, claims, device, user, ops, save_ok) ==
    LET ctx == [device |-> device, user |-> user]
        stamp_exception == ParseStampException(user.stamp_exception)
    IN  IF user.security_stamp # claims.sstamp
        THEN IF IsSome(stamp_exception)
             THEN LET ex == Unwrap(stamp_exception)
                  IN  IF req.route = None
                      THEN Failure("Error getting current route for stamp exception",
                                   ops, db.users)
                      ELSE IF stamp_exception_expired(db.now, ex)
                      THEN Headers_expired_exception(db, user, ops, save_ok)
                      ELSE IF ~routes_contains(ex, Unwrap(req.route))
                      THEN Failure("Invalid security stamp: Current route and exception route do not match",
                                   ops, db.users)
                      ELSE IF exception_stamp_differs(ex, claims)
                      THEN Failure("Invalid security stamp for matched stamp exception",
                                   ops, db.users)
                      ELSE exception_accepts(db, user, ops, ctx)
             ELSE Failure("Invalid security stamp", ops, db.users)
        ELSE Success(ops, db.users, ctx)

\* Headers::from_request from the outcome of decode_login on
\* The reason decode_login gave, handed on to the caller
invalid_claim_reason(decoded) == decoded.err

\* let Ok(claims) = decode_login(access_token) else { err_handler!("Invalid claim") }
invalid_claim(decoded) == "Invalid claim"

\* Headers::from_request with the device looked up by its id alone
Headers_decoded_device_by_id(req, db, decoded, save_ok) ==
    LET ops1 == <<"decode_login">>
    IN  IF ~decoded.ok THEN Failure("Invalid claim", ops1, db.users)
        ELSE
        LET claims == Unwrap(decoded.claims)
            owners == {d \in db.devices : d[1] = claims.device}
            ops3 == <<"decode_login", "Device::find_by_uuid_and_user", "User::find_by_uuid">>
        IN  IF req.conns < 1 THEN Failure("Error getting DB", ops1, db.users)
            ELSE IF owners = {} THEN Failure("Invalid device id", ops1, db.users)
            ELSE IF User_find_by_uuid(db, claims.sub) = None
            THEN Failure("Device has no user associated", ops3, db.users)
            ELSE Headers_stamp_check(req, db, claims,
                                     [uuid |-> claims.device, user_uuid |-> The(owners)[2]],
                                     Unwrap(User_find_by_uuid(db, claims.sub)), ops3, save_ok)

Headers_decoded(req, db, decoded, save_ok) ==
    LET ops1 == <<"decode_login">>
    IN  IF ~decoded.ok THEN Failure(invalid_claim(decoded), ops1, db.users)
        ELSE
        LET claims == Unwrap(decoded.claims)
            device_id == claims.device
            user_id == claims.sub
        IN  IF req.conns < 1 THEN Failure("Error getting DB", ops1, db.users)
            ELSE
            LET device == Device_find_by_uuid_and_user(db, device_id, user_id)
                ops2 == Append(ops1, "Device::find_by_uuid_and_user")
            IN  IF device = None THEN Failure("Invalid device id", ops2, db.users)
                ELSE
                LET user == User_find_by_uuid(db, user_id)
                    ops3 == Append(ops2, "User::find_by_uuid")
                IN  IF user = None
                    THEN Failure("Device has no user associated", ops3, db.users)
                    ELSE Headers_stamp_check(req, db, claims, Unwrap(device),
                                             Unwrap(user), ops3, save_ok)

\* Headers::from_request. Host::from_request and ClientIp::from_request always succeed.
Headers_from_request(req, db, save_ok) ==
    IF req.auth = None THEN Failure("No access token provided", <<>>, db.users)
    ELSE The({Headers_decoded(req, db, decoded, save_ok) :
                decoded \in {decode_login(access_token(Unwrap(req.auth)), db.now)}})

(***************************************************************************)
(* OrgHeaders and the tiers built on it                                    *)
(***************************************************************************)
\* try_outcome!: the failure of the guard below is returned as it is
try_outcome_generic(headers) == [headers EXCEPT !.err = "Unauthorized"]

try_outcome(headers) == headers

\* FromParam / FromFormField of OrganizationId: Ok for a well-formed uuid only
OrganizationId_parse_ok(o) == IsSome(o) /\ Uuid_parse_str_is_ok(Unwrap(o))

\* url_org_id: path segment 1 if it parses, else the organizationId query value
url_org_id(req) ==
    IF OrganizationId_parse_ok(req.p1) THEN req.p1
    ELSE IF OrganizationId_parse_ok(req.qorg) THEN req.qorg
    ELSE None

\* The fields with a number that names no type read as User, and one that names
\* no status as Invited
membership_fields_defaulting(m) ==
    LET member_type == MembershipType_from_i32(m.atype)
        member_status == MembershipStatus_from_i32(m.status)
    IN  [err |-> "",
         membership_type |-> IF member_type = "-" THEN "User" ELSE member_type,
         membership_status |-> IF member_status = "-" THEN "Invited" ELSE member_status]

\* The fields decoded with a Revoked status for the stored -1
membership_fields_with_revoked(m) ==
    LET member_type == MembershipType_from_i32(m.atype)
        member_status == IF m.status = -1 THEN "Revoked"
                         ELSE MembershipStatus_from_i32(m.status)
    IN  IF member_type = "-"
        THEN [err |-> "Unknown user type in the database",
              membership_type |-> "-", membership_status |-> "-"]
        ELSE IF member_status = "-"
        THEN [err |-> "User status is either revoked or invalid.",
              membership_type |-> "-", membership_status |-> "-"]
        ELSE [err |-> "", membership_type |-> member_type,
              membership_status |-> member_status]

\* The membership_type and membership_status fields of OrgHeaders, in the order
\* the struct expression evaluates them
membership_fields(m) ==
    LET member_type == MembershipType_from_i32(m.atype)
        member_status == MembershipStatus_from_i32(m.status)
    IN  IF member_type = "-"
        THEN [err |-> "Unknown user type in the database",
              membership_type |-> "-", membership_status |-> "-"]
        ELSE IF member_status = "-"
        THEN [err |-> "User status is either revoked or invalid.",
              membership_type |-> "-", membership_status |-> "-"]
        ELSE [err |-> "", membership_type |-> member_type,
              membership_status |-> member_status]

\* OrgHeaders::from_request from the outcome of Headers::from_request on
OrgHeaders_checked(req, db, headers) ==
        IF ~headers.ok THEN try_outcome(headers)
        ELSE
        LET h == Unwrap(headers.ctx)
            org == url_org_id(req)
        IN  IF ~(IsSome(org) /\ Uuid_parse_str_is_ok(Unwrap(org)))
            THEN Failure("Error getting the organization id", headers.ops, headers.users)
            ELSE IF req.conns < 2
            THEN Failure("Error getting DB", headers.ops, headers.users)
            ELSE
            LET user == h.user
                membership == Membership_find_by_user_and_org(db, user.uuid, Unwrap(org))
                ops1 == Append(headers.ops, "Membership::find_by_user_and_org")
            IN  IF membership = None
                THEN Failure("The current user isn't member of the organization",
                             ops1, headers.users)
                ELSE
                LET m == Unwrap(membership)
                    decoded == membership_fields(m)
                IN  IF decoded.err # ""
                    THEN Failure(decoded.err, ops1, headers.users)
                    ELSE Success(ops1, headers.users,
                                 [device |-> h.device, user |-> user,
                                  membership_type |-> decoded.membership_type,
                                  membership_status |-> decoded.membership_status,
                                  membership |-> m])

\* OrgHeaders::from_request
OrgHeaders_from_request(req, db, save_ok) ==
    The({OrgHeaders_checked(req, db, headers) :
            headers \in {Headers_from_request(req, db, save_ok)}})

is_member_confirmed(h) ==
    h.membership_status = "Confirmed" /\ TypeGe(h.membership_type, "User")

is_member(h) == TypeGe(h.membership_type, "User")

is_confirmed_and_admin_exactly(h) ==
    h.membership_status = "Confirmed" /\ h.membership_type = "Admin"

is_confirmed_and_admin_any_status(h) == TypeGe(h.membership_type, "Admin")

is_confirmed_and_admin(h) ==
    h.membership_status = "Confirmed" /\ TypeGe(h.membership_type, "Admin")

is_confirmed_and_manager_any_status(h) == TypeGe(h.membership_type, "Manager")

is_confirmed_and_manager(h) ==
    h.membership_status = "Confirmed" /\ TypeGe(h.membership_type, "Manager")

is_confirmed_and_owner_or_admin(h) ==
    h.membership_status = "Confirmed" /\ TypeGe(h.membership_type, "Admin")

is_confirmed_and_owner(h) ==
    h.membership_status = "Confirmed" /\ h.membership_type = "Owner"

\* AdminHeaders::from_request from the outcome of OrgHeaders::from_request on
AdminHeaders_checked(req, db, headers) ==
        IF ~headers.ok THEN try_outcome(headers)
        ELSE
        LET h == Unwrap(headers.ctx)
            ops1 == Append(headers.ops, "is_confirmed_and_admin")
        IN  IF is_confirmed_and_admin(h)
            THEN Success(ops1, headers.users,
                         [device |-> h.device, user |-> h.user,
                          membership_type |-> h.membership_type,
                          org_id |-> h.membership.org_uuid])
            ELSE Failure("You need to be Admin or Owner to call this endpoint",
                         ops1, headers.users)

\* AdminHeaders::from_request
AdminHeaders_from_request(req, db, save_ok) ==
    The({AdminHeaders_checked(req, db, headers) :
            headers \in {OrgHeaders_from_request(req, db, save_ok)}})

\* get_col_id: path segment 3 if it is a uuid, else the collectionId query value if
\* it is one
get_col_id(req) ==
    IF IsSome(req.p3) /\ Uuid_parse_str_is_ok(Unwrap(req.p3)) THEN req.p3
    ELSE IF IsSome(req.qcol) /\ Uuid_parse_str_is_ok(Unwrap(req.qcol)) THEN req.qcol
    ELSE None

\* ManagerHeaders::from_request from the outcome of OrgHeaders::from_request on
ManagerHeaders_checked(req, db, headers) ==
        IF ~headers.ok THEN try_outcome(headers)
        ELSE
        LET h == Unwrap(headers.ctx)
            ops1 == Append(headers.ops, "is_confirmed_and_manager")
            col_id == get_col_id(req)
            ops2 == Append(ops1, "Collection::can_access_collection")
        IN  IF is_confirmed_and_manager(h)
            THEN IF IsSome(col_id)
                 THEN IF req.conns < 3
                      THEN Failure("Error getting DB", ops1, headers.users)
                      ELSE IF ~Collection_can_access_collection(db, h.membership,
                                                                Unwrap(col_id))
                      THEN Failure("The current user isn't a manager for this collection",
                                   ops2, headers.users)
                      ELSE Success(ops2, headers.users,
                                   [device |-> h.device, user |-> h.user,
                                    org_id |-> h.membership.org_uuid])
                 ELSE Failure("Error getting the collection id", ops1, headers.users)
            ELSE Failure("You need to be a Manager, Admin or Owner to call this endpoint",
                         ops1, headers.users)

\* ManagerHeaders::from_request
ManagerHeaders_from_request(req, db, save_ok) ==
    The({ManagerHeaders_checked(req, db, headers) :
            headers \in {OrgHeaders_from_request(req, db, save_ok)}})

\* ManagerHeadersLoose::from_request from the outcome of OrgHeaders::from_request on
ManagerHeadersLoose_checked(req, db, headers) ==
        IF ~headers.ok THEN try_outcome(headers)
        ELSE
        LET h == Unwrap(headers.ctx)
            ops1 == Append(headers.ops, "is_confirmed_and_manager")
        IN  IF is_confirmed_and_manager(h)
            THEN Success(ops1, headers.users,
                         [device |-> h.device, user |-> h.user,
                          membership |-> h.membership])
            ELSE Failure("You need to be a Manager, Admin or Owner to call this endpoint",
                         ops1, headers.users)

\* ManagerHeadersLoose::from_request
ManagerHeadersLoose_from_request(req, db, save_ok) ==
    The({ManagerHeadersLoose_checked(req, db, headers) :
            headers \in {OrgHeaders_from_request(req, db, save_ok)}})

\* The loop of ManagerHeaders::from_loose from collection i on: the first id that is
\* malformed or not accessible ends it
RECURSIVE from_loose_loop(_, _, _, _, _)
from_loose_loop(h, collections, db, i, ops) ==
    IF i > Len(collections)
    THEN [ok |-> TRUE, err |-> "", ops |-> ops, users |-> db.users,
          ctx |-> Some([device |-> h.device, user |-> h.user,
                        org_id |-> h.membership.org_uuid])]
    ELSE IF ~Uuid_parse_str_is_ok(collections[i])
    THEN Failure("Collection Id is malformed!", ops, db.users)
    ELSE IF ~Collection_can_access_collection(db, h.membership, collections[i])
    THEN Failure("You don't have access to all collections!",
                 Append(ops, "Collection::can_access_collection"), db.users)
    ELSE from_loose_loop(h, collections, db, i + 1,
                         Append(ops, "Collection::can_access_collection"))

\* ManagerHeaders::from_loose
ManagerHeaders_from_loose_first(h, collections, db) ==
    from_loose_loop(h, IF collections = <<>> THEN <<>> ELSE <<collections[1]>>, db, 1, <<>>)

ManagerHeaders_from_loose(h, collections, db) == from_loose_loop(h, collections, db, 1, <<>>)

\* OwnerHeaders::from_request from the outcome of OrgHeaders::from_request on
OwnerHeaders_checked(req, db, headers) ==
        IF ~headers.ok THEN try_outcome(headers)
        ELSE
        LET h == Unwrap(headers.ctx)
            ops1 == Append(headers.ops, "is_confirmed_and_owner")
        IN  IF is_confirmed_and_owner(h)
            THEN Success(ops1, headers.users,
                         [device |-> h.device, user |-> h.user,
                          org_id |-> h.membership.org_uuid])
            ELSE Failure("You need to be Owner to call this endpoint", ops1, headers.users)

\* OwnerHeaders::from_request
OwnerHeaders_from_request(req, db, save_ok) ==
    The({OwnerHeaders_checked(req, db, headers) :
            headers \in {OrgHeaders_from_request(req, db, save_ok)}})

\* OrgMemberHeaders::from_request from the outcome of OrgHeaders::from_request on
OrgMemberHeaders_checked(req, db, headers) ==
        IF ~headers.ok THEN try_outcome(headers)
        ELSE
        LET h == Unwrap(headers.ctx)
            ops1 == Append(headers.ops, "is_member")
        IN  IF is_member(h)
            THEN Success(ops1, headers.users,
                         [user |-> h.user, org_id |-> h.membership.org_uuid])
            ELSE Failure("You need to be a Member of the Organization to call this endpoint",
                         ops1, headers.users)

\* OrgMemberHeaders::from_request
OrgMemberHeaders_from_request(req, db, save_ok) ==
    The({OrgMemberHeaders_checked(req, db, headers) :
            headers \in {OrgHeaders_from_request(req, db, save_ok)}})

(***************************************************************************)
(* Rate limiter (src/src/ratelimit.rs)                                     *)
(***************************************************************************)
Limiters == {"login", "admin"}
Ips == {"ip1", "ip2"}

\* CONFIG.login_ratelimit_seconds(), CONFIG.login_ratelimit_max_burst(),
\* CONFIG.admin_ratelimit_seconds(), CONFIG.admin_ratelimit_max_burst()
LoginSeconds == 2
LoginBurst == 2
AdminSeconds == 3
AdminBurst == 1

\* LIMITER_LOGIN / LIMITER_ADMIN: Quota::with_period(seconds).allow_burst(burst)
Quota_login_for_both(limiter) == [period |-> LoginSeconds, burst |-> LoginBurst]

Quota(limiter) ==
    IF limiter = "login" THEN [period |-> LoginSeconds, burst |-> LoginBurst]
    ELSE [period |-> AdminSeconds, burst |-> AdminBurst]

\* The instant the limiters' clock starts at; readings are durations since then
LimiterStart == IssueTime

Max(a, b) == IF a >= b THEN a ELSE b

\* governor's GCRA decision for one key. tat is the stored theoretical arrival
\* time, 0 when the key has no state yet; t0 the reading of the clock. The cell is
\* allowed unless t0 is before tat - tau, with tau = period * burst, and an
\* allowed cell moves tat to max(tat, t0) + period.
gcra_decide(tat, t0, quota) ==
    LET t == quota.period
        tau == quota.period * quota.burst
        cur == IF tat = 0 THEN t0 + t ELSE tat
        earliest_time == IF cur > tau THEN cur - tau ELSE 0
    IN  IF t0 < earliest_time
        THEN [ok |-> FALSE, next |-> tat]
        ELSE [ok |-> TRUE, next |-> Max(cur, t0) + t]

\* RateLimiter::check_key as one atomic step: the decision and the state it leaves
check_key(bs, limiter, ip, t0) ==
    LET d == gcra_decide(bs[<<limiter, ip>>], t0, Quota(limiter))
    IN  [ok |-> d.ok,
         buckets |-> IF d.ok THEN [bs EXCEPT ![<<limiter, ip>>] = d.next] ELSE bs]

\* The limiter each check function consults
limiter_of_login_always(fn) == "login"

limiter_of(fn) == IF fn = "check_limit_login" THEN "login" ELSE "admin"

\* match LIMITER_x.check_key(ip) { Ok(_) => Ok(()), Err(_e) => err_code!(.., 429) }
check_limit_result_ok(fn, allowed) == [ok |-> TRUE, code |-> 200, err |-> ""]

check_limit_result(fn, allowed) ==
    IF allowed THEN [ok |-> TRUE, code |-> 200, err |-> ""]
    ELSE [ok |-> FALSE, code |-> 429,
          err |-> IF fn = "check_limit_login" THEN "Too many login requests"
                  ELSE "Too many admin requests"]

CheckFns == {"check_limit_login", "check_limit_admin"}

\* check_limit_login / check_limit_admin on the buckets bs at clock reading t0
check_limit(fn, bs, ip, t0) ==
    LET r == check_key(bs, limiter_of(fn), ip, t0)
    IN  [res |-> check_limit_result(fn, r.ok), buckets |-> r.buckets]

check_limit_login(bs, ip, t0) == check_limit("check_limit_login", bs, ip, t0)
check_limit_admin(bs, ip, t0) == check_limit("check_limit_admin", bs, ip, t0)

\* Every key new: every bucket full
FreshBuckets == [k \in Limiters \X Ips |-> 0]

\* A worker that is in no check, and no concurrent checks under way
IdleWorker == [pc |-> "idle", fn |-> "-", ip |-> "-", t0 |-> 0, prev |-> 0, new |-> 0,
               res |-> [ok |-> TRUE, code |-> 200, err |-> ""]]
NoRound == [active |-> FALSE, ticked |-> FALSE, start |-> FreshBuckets, t |-> 0]

(***************************************************************************)
(* Key manager                                                             *)
(***************************************************************************)
\* Key pairs openssl generates, in the order it generates them
MaxKeys == 2
KeyPool == <<ServerKey, OtherKey, "key_3", "key_4">>

\* What the file at CONFIG.private_ed25519_key() holds: no file, no bytes, bytes
\* that are no PEM private key, the PEM of an RSA private key, or the PEM of the
\* Ed25519 private key of a pair of KeyPool
NotKeys == {"absent", "empty", "corrupt"}
RsaKey == "key_rsa"
MkFile(content, writable) == [content |-> content, writable |-> writable]

NoKeys == [priv |-> None, pub |-> None]

KeyOk(key, file, generated) ==
    [ok |-> TRUE, err |-> "", key |-> key, file |-> file, generated |-> generated]
KeyErr(msg, file, generated) ==
    [ok |-> FALSE, err |-> msg, key |-> "-", file |-> file, generated |-> generated]

\* open() that also truncates the file it opens for writing
open_truncating(file, create_if_missing) ==
    IF create_if_missing
    THEN [ok |-> file.writable,
          file |-> IF file.writable THEN [file EXCEPT !.content = "empty"] ELSE file]
    ELSE [ok |-> file.content # "absent", file |-> file]

\* File::options().create(c).read(true).write(c).open(path): creates the file when
\* it is missing, never truncates it; fails on a file it may not write or, without
\* create, on a missing file
open(file, create_if_missing) ==
    IF create_if_missing
    THEN [ok |-> file.writable,
          file |-> IF file.writable /\ file.content = "absent"
                   THEN [file EXCEPT !.content = "empty"] ELSE file]
    ELSE [ok |-> file.content # "absent", file |-> file]

\* PKey::private_key_from_pem
private_key_from_pem_is_ok(content) == content \notin NotKeys

\* write_all that reports success and writes nothing
write_all_nothing(file, buffer, write_ok, partial) == [ok |-> TRUE, file |-> file]

\* priv_key_file.write_all(&priv_key_buffer): on an I/O error none or some of the
\* bytes have reached the file
write_all(file, buffer, write_ok, partial) ==
    IF write_ok
    THEN [ok |-> TRUE, file |-> [file EXCEPT !.content = buffer]]
    ELSE [ok |-> FALSE, file |-> [file EXCEPT !.content = IF partial THEN "corrupt" ELSE @]]

read_key(file, create_if_missing, generated, write_ok, partial) ==
    LET opened == open(file, create_if_missing)
        f == opened.file
    IN  IF ~opened.ok THEN KeyErr("io", file, generated)
        ELSE IF f.content # "empty"
        THEN IF private_key_from_pem_is_ok(f.content)
             THEN KeyOk(f.content, f, generated)
             ELSE KeyErr("pem", f, generated)
        ELSE IF create_if_missing
        THEN LET ed25519_key == KeyPool[generated + 1]
                 written == write_all(f, ed25519_key, write_ok, partial)
             IN  IF written.ok
                 THEN KeyOk(ed25519_key, written.file, generated + 1)
                 ELSE KeyErr("io", written.file, generated + 1)
        ELSE KeyErr("Private key does not exist or is invalid", f, generated)

\* EncodingKey::from_ed_pem, DecodingKey::from_ed_pem: Ed25519 keys only
from_ed_pem_is_ok(buffer) == buffer # RsaKey

\* OnceLock::set: fails on a cell that is set, and leaves it as it is
OnceLock_set(cell, value) ==
    IF IsSome(cell) THEN [ok |-> FALSE, cell |-> cell] ELSE [ok |-> TRUE, cell |-> Some(value)]

\* The two cells written whatever they hold
set_keys_replacing(ks, enc, dec) ==
    [ok |-> TRUE, err |-> "", keys |-> [priv |-> Some(enc), pub |-> Some(dec)]]

\* PRIVATE_ED25519_KEY.set(enc), then PUBLIC_ED25519_KEY.set(dec)
set_keys(ks, enc, dec) ==
    LET private == OnceLock_set(ks.priv, enc)
        public == OnceLock_set(ks.pub, dec)
    IN  IF ~private.ok
        THEN [ok |-> FALSE, err |-> "PRIVATE_ED25519_KEY must only be initialized once",
              keys |-> ks]
        ELSE IF ~public.ok
        THEN [ok |-> FALSE, err |-> "PUBLIC_ED25519_KEY must only be initialized once",
              keys |-> [ks EXCEPT !.priv = private.cell]]
        ELSE [ok |-> TRUE, err |-> "", keys |-> [priv |-> private.cell, pub |-> public.cell]]

\* initialize_keys in a process whose cells hold ks: the outcome, the cells, the
\* file and the number of keys generated so far
initialize_keys(file, ks, generated, write_ok, partial) ==
    LET first == read_key(file, TRUE, generated, write_ok, partial)
        read == IF first.ok THEN first
                ELSE read_key(first.file, FALSE, first.generated, write_ok, partial)
        set == set_keys(ks, read.key, read.key)
    IN  IF ~read.ok
        THEN [ok |-> FALSE, err |-> read.err, keys |-> ks, file |-> read.file,
              generated |-> read.generated, key |-> "-"]
        ELSE IF ~from_ed_pem_is_ok(read.key)
        THEN [ok |-> FALSE, err |-> "InvalidKeyFormat", keys |-> ks, file |-> read.file,
              generated |-> read.generated, key |-> "-"]
        ELSE [ok |-> set.ok, err |-> set.err, keys |-> set.keys, file |-> read.file,
              generated |-> read.generated, key |-> read.key]

\* Where a call of initialize_keys stands after each of its steps: the key it
\* holds, which cells it has set, and what it returned
KeysReturned(ok, err, key, set_private, set_public) ==
    [pc |-> "returned", ok |-> ok, err |-> err, key |-> key,
     set_private |-> set_private, set_public |-> set_public]

\* let (priv_key, priv_key_buffer) = ..?; from_ed_pem(..)?
keys_read_step(read) ==
    IF ~read.ok THEN KeysReturned(FALSE, read.err, "-", FALSE, FALSE)
    ELSE IF ~from_ed_pem_is_ok(read.key)
    THEN KeysReturned(FALSE, "InvalidKeyFormat", "-", FALSE, FALSE)
    ELSE [pc |-> "set_private", key |-> read.key]

\* A call that goes on to the public key whatever PRIVATE_ED25519_KEY.set returned
private_set_step_ignoring(ok, key) == [pc |-> "set_public", key |-> key, set_private |-> ok]

\* if PRIVATE_ED25519_KEY.set(enc).is_err() { err!(..) }
private_set_step(ok, key) ==
    IF ~ok
    THEN KeysReturned(FALSE, "PRIVATE_ED25519_KEY must only be initialized once", key,
                      FALSE, FALSE)
    ELSE [pc |-> "set_public", key |-> key, set_private |-> TRUE]

\* if PUBLIC_ED25519_KEY.set(dec).is_err() { err!(..) }  Ok(())
public_set_step(ok, key) ==
    IF ~ok
    THEN KeysReturned(FALSE, "PUBLIC_ED25519_KEY must only be initialized once", key,
                      TRUE, FALSE)
    ELSE KeysReturned(TRUE, "", key, TRUE, TRUE)

\* What a run of processes has done with the key file: keys generated so far, the
\* key the first successful initialize_keys of the running process set, the key a
\* process generated and wrote to the file that is still in place, a login token a
\* process issued, and whether the server has restarted since
MkBoot(generated, first, persisted, token, restarted) ==
    [generated |-> generated, first |-> first, persisted |-> persisted,
     token |-> token, restarted |-> restarted]

KeyPairs == {KeyPool[i] : i \in DOMAIN KeyPool}

\* Contents someone other than the server gives the key file
ForeignContents == NotKeys \cup {RsaKey}

\* Claims of every claim type, issued at IssueTime for their own purpose
RoundTripClaims ==
    {generate_claims(q, IssueTime, "u1") : q \in Purposes \ {"login"}}
    \cup {generate_login_claims(IssueTime, "u1", "d1", 0)}

\* A process that has not initialized its keys, no key file yet
NoBoot == MkBoot(0, None, None, None, FALSE)
\* The running process has initialized its keys from the file of ServerKey
Booted == MkBoot(1, Some(ServerKey), Some(ServerKey), None, FALSE)

(***************************************************************************)
(* Bounds and input sets                                                   *)
(***************************************************************************)
\* Stamps are fresh values; stamp n is the one after n rotations
MaxStamp == 1
\* Longest collection list handed to from_loose
MaxCols == 2

\* Rate-limit checks recorded in the log, readings of the limiters' clock
MaxLog == LoginBurst + 2
MaxTicks == AdminSeconds

\* Workers that check a rate limit concurrently
MaxWorkers == 2
Workers == 1..MaxWorkers

LoginTimes == WindowTimes("login")

\* The stamp a login token for user u can carry: one u has had
StampsOf(us, u) == IF u \in DOMAIN us THEN 0..us[u].security_stamp ELSE {0}

\* Login tokens the server has signed: any user and device, a stamp the user has had
LoginTokens(us) ==
    {encode_jwt(generate_login_claims(IssueTime, u, d, st)) :
        <<u, d, st>> \in {x \in UserIds \X DeviceIds \X (0..MaxStamp) : x[3] \in StampsOf(us, x[1])}}

\* A string that is not three dot-separated parts
MalformedToken ==
    MkToken(MkClaims("BasicJwtClaims", Issuer("login"), 0, 0, "-", -1, "-"), "bad", FALSE, FALSE)

\* The same header and payload signed by a key the server does not hold
Forged(token) == [token EXCEPT !.sig = OtherKey]

\* The token with a line break inside
Wrapped(token) == [token EXCEPT !.ws = TRUE]

Bearer(token) == Some([prefix |-> "Bearer ", token |-> token])

\* Authorization headers of the Headers specification
HeaderAuths(us) ==
    {None}
    \cup {Bearer(t) : t \in LoginTokens(us)}
    \cup {Bearer(Forged(t)) : t \in {x \in LoginTokens(us) : x.claims.sub = "u1" /\ x.claims.device = "d1"}}
    \cup {Bearer(encode_jwt(generate_claims("admin", IssueTime, "admin_panel"))),
          Bearer(MalformedToken)}
    \cup {Some([prefix |-> pre, token |-> encode_jwt(generate_login_claims(IssueTime, "u1", "d1", 0))]) :
            pre \in {"", "Basic "}}

RouteNames == {None} \cup {Some(r) : r \in Routes}

HeaderRequests(us) ==
    {MkRequest(a, r, None, None, None, None, c) :
        a \in HeaderAuths(us), r \in RouteNames, c \in 0..1}

\* Authorization headers of the organization specification
OrgAuths(us) ==
    {None, Bearer(Forged(encode_jwt(generate_login_claims(IssueTime, "u1", "d1", 0)))),
     Bearer(encode_jwt(generate_login_claims(IssueTime, "u2", "d2", 0)))}
    \cup {Bearer(encode_jwt(generate_login_claims(IssueTime, "u1", "d1", st))) :
            st \in StampsOf(us, "u1")}

OrgParams == {None, Some("o1"), Some("o2"), Some("junk")}
OrgQueries == {None, Some("o1")}
ColParams == {None, Some("c1"), Some("c2"), Some("junk")}
ColQueries == {None, Some("c1"), Some("c2")}

\* Requests to a guard that makes at most n DbConn acquisitions and reads no collection id
OrgRequests(us, n) ==
    {MkRequest(a, Some("get_sync"), o, q, None, None, c) :
        a \in OrgAuths(us), o \in OrgParams, q \in OrgQueries, c \in 0..n}

ManagerRequests(us) ==
    {MkRequest(a, Some("get_sync"), o, None, p, q, c) :
        a \in OrgAuths(us), o \in OrgParams, p \in ColParams, q \in ColQueries, c \in 0..3}

CollectionLists == UNION {[1..n -> {"c1", "c2", "junk"}] : n \in 0..MaxCols}

\* Requests of the chain specification: the tokens user u1 has been issued (or no
\* header), a route a stamp exception covers and one it does not, organization o1,
\* with or without a collection id, and every number of DbConn acquisitions
ChainRoute == "post_email"
ChainRequests(us) ==
    {MkRequest(a, Some(r), Some("o1"), None, p, None, c) :
        a \in {None} \cup {Bearer(encode_jwt(generate_login_claims(IssueTime, "u1", "d1", st))) :
                                st \in StampsOf(us, "u1")},
        r \in Routes, p \in {None, Some("c1")}, c \in 0..3}

\* Clock readings of the chain specification: the issue of the tokens, and their
\* last valid second
ChainTimes == {IssueTime, IssueTime + Lifetime("login")}

\* Stored encodings of Membership.atype and Membership.status
TypeCodes == {0, 1, 2, 3, 4}
StatusCodes == {-1, 0, 1, 2, 3}

\* Tokens handed to the decode functions
JwtClaims(p) ==
    IF p = "login" THEN generate_login_claims(IssueTime, "u1", "d1", 0)
    ELSE generate_claims(p, IssueTime, "subject")

JwtTokens ==
    {MalformedToken}
    \cup {encode_jwt(JwtClaims(p)) : p \in Purposes}
    \cup {Forged(encode_jwt(JwtClaims(p))) : p \in Purposes}
    \cup {Wrapped(encode_jwt(JwtClaims(p))) : p \in Purposes}

(***************************************************************************)
(* Actions                                                                 *)
(***************************************************************************)
Idle == [op |-> "none"]

\* The wall clock is set (it is not monotonic)
ClockSet(t) ==
    /\ last.op = "none"
    /\ t # now
    /\ now' = t
    /\ UNCHANGED <<users, devices, members, access, last, limiterVars, keyVars>>

\* A credential change gives the user a fresh security stamp
RotateStamp(u) ==
    /\ last.op = "none"
    /\ u \in DOMAIN users
    /\ users[u].security_stamp < MaxStamp
    /\ users' = [users EXCEPT ![u].security_stamp = @ + 1]
    /\ UNCHANGED <<now, devices, members, access, last, limiterVars, keyVars>>

\* A flow about to rotate the stamp stores an exception for some routes, with the
\* current stamp as its snapshot and an expiry not before now
SetStampException(u, routes, expire) ==
    /\ last.op = "none"
    /\ u \in DOMAIN users
    /\ routes # {}
    /\ expire >= now
    /\ users' = [users EXCEPT ![u].stamp_exception =
                    MkStampException(routes, users[u].security_stamp, expire)]
    /\ users' # users
    /\ UNCHANGED <<now, devices, members, access, last, limiterVars, keyVars>>

\* A membership row is created or changed (invite, accept, confirm, change of
\* type, revoke)
SetMembership(u, o, atype, status) ==
    /\ last.op = "none"
    /\ members' = [k \in DOMAIN members \cup {<<u, o>>} |->
                    IF k = <<u, o>> THEN [atype |-> atype, status |-> status]
                    ELSE members[k]]
    /\ members' # members
    /\ UNCHANGED <<now, users, devices, access, last, limiterVars, keyVars>>

\* A membership row is deleted
DeleteMembership(u, o) ==
    /\ last.op = "none"
    /\ <<u, o>> \in DOMAIN members
    /\ members' = [k \in DOMAIN members \ {<<u, o>>} |-> members[k]]
    /\ UNCHANGED <<now, users, devices, access, last, limiterVars, keyVars>>

\* Access of a member to a collection is granted or withdrawn
SetAccess(u, o, c, granted) ==
    /\ last.op = "none"
    /\ access' = IF granted THEN access \cup {<<u, o, c>>} ELSE access \ {<<u, o, c>>}
    /\ access' # access
    /\ UNCHANGED <<now, users, devices, members, last, limiterVars, keyVars>>

\* A guard answers a request: the rows it saved are stored, the outcome is kept
Answer(op, req, res) ==
    /\ users' = res.users
    /\ last' = [op |-> op, req |-> req, pre |-> DB, res |-> res, cols |-> <<>>]
    /\ UNCHANGED <<now, devices, members, access, limiterVars, keyVars>>

HeadersRequest(req, save_ok) ==
    /\ last.op = "none"
    /\ Answer("Headers", req, Headers_from_request(req, DB, save_ok))

OrgHeadersRequest(req, save_ok) ==
    /\ last.op = "none"
    /\ Answer("OrgHeaders", req, OrgHeaders_from_request(req, DB, save_ok))

AdminHeadersRequest(req, save_ok) ==
    /\ last.op = "none"
    /\ Answer("AdminHeaders", req, AdminHeaders_from_request(req, DB, save_ok))

ManagerHeadersRequest(req, save_ok) ==
    /\ last.op = "none"
    /\ Answer("ManagerHeaders", req, ManagerHeaders_from_request(req, DB, save_ok))

ManagerHeadersLooseRequest(req, save_ok) ==
    /\ last.op = "none"
    /\ Answer("ManagerHeadersLoose", req, ManagerHeadersLoose_from_request(req, DB, save_ok))

OwnerHeadersRequest(req, save_ok) ==
    /\ last.op = "none"
    /\ Answer("OwnerHeaders", req, OwnerHeaders_from_request(req, DB, save_ok))

OrgMemberHeadersRequest(req, save_ok) ==
    /\ last.op = "none"
    /\ Answer("OrgMemberHeaders", req, OrgMemberHeaders_from_request(req, DB, save_ok))

\* A handler guarded by ManagerHeadersLoose reads the collection ids of the body
\* and calls ManagerHeaders::from_loose on them
FromLoose(collections) ==
    /\ last.op = "ManagerHeadersLoose"
    /\ last.res.ok
    /\ last' = [op |-> "from_loose", req |-> last.req, pre |-> DB,
                res |-> ManagerHeaders_from_loose(Unwrap(last.res.ctx), collections, DB),
                cols |-> collections]
    /\ UNCHANGED <<now, users, devices, members, access, limiterVars, keyVars>>

\* A decode_* function is called on a token
DecodeRequest(p, token) ==
    /\ last.op = "none"
    /\ last' = [op |-> "decode_jwt", purpose |-> p, token |-> token, pre |-> DB,
                res |-> decode_purpose(p, token, now)]
    /\ UNCHANGED <<now, users, devices, members, access, limiterVars, keyVars>>

\* The limiters' clock advances (it is monotonic)
Tick ==
    /\ last.op = "none"
    /\ now < LimiterStart + MaxTicks
    /\ now' = now + 1
    /\ UNCHANGED <<storeVars, last, limiterVars, keyVars>>

\* A handler calls check_limit_login(ip) or check_limit_admin(ip); the check is
\* atomic for its key
CheckLimit(fn, ip) ==
    /\ last.op = "none"
    /\ Len(log) < MaxLog
    /\ LET out == IF fn = "check_limit_login"
                  THEN check_limit_login(buckets, ip, now - LimiterStart)
                  ELSE check_limit_admin(buckets, ip, now - LimiterStart)
       IN  /\ buckets' = out.buckets
           /\ log' = Append(log, [fn |-> fn, ip |-> ip, t |-> now - LimiterStart,
                                  res |-> out.res])
           /\ last' = [op |-> fn, ip |-> ip, pre |-> buckets, res |-> out.res]
    /\ UNCHANGED <<now, storeVars, procs, round, keyVars>>

\* The limiters' clock advances while checks may be under way
TickRound ==
    /\ now < LimiterStart + LoginSeconds
    /\ now' = now + 1
    /\ round' = IF round.active THEN [round EXCEPT !.ticked = TRUE] ELSE round
    /\ UNCHANGED <<storeVars, last, buckets, log, procs, keyVars>>

\* Worker w enters check_limit_login(ip) or check_limit_admin(ip): check_key reads
\* the clock
StartCheck(w, fn, ip) ==
    /\ procs[w].pc = "idle"
    /\ procs' = [procs EXCEPT ![w] = [pc |-> "load", fn |-> fn, ip |-> ip,
                                      t0 |-> now - LimiterStart, prev |-> 0, new |-> 0,
                                      res |-> check_limit_result(fn, TRUE)]]
    /\ round' = IF round.active THEN round
                ELSE [active |-> TRUE, ticked |-> FALSE, start |-> buckets,
                      t |-> now - LimiterStart]
    /\ UNCHANGED <<now, storeVars, last, buckets, log, keyVars>>

\* The key of the bucket worker w is checking
KeyOf(w) == <<limiter_of(procs[w].fn), procs[w].ip>>

\* What worker w does having read prev from its bucket: a disallowed cell ends the
\* check with the error, an allowed one goes on to the compare-and-swap
Decided(w, prev) ==
    LET d == gcra_decide(prev, procs[w].t0, Quota(limiter_of(procs[w].fn)))
    IN  IF d.ok
        THEN [procs[w] EXCEPT !.pc = "cas", !.prev = prev, !.new = d.next]
        ELSE [procs[w] EXCEPT !.pc = "done", !.prev = prev,
                              !.res = check_limit_result(procs[w].fn, FALSE)]

\* measure_and_replace: the worker loads the stored arrival time of its key
Load(w) ==
    /\ procs[w].pc = "load"
    /\ procs' = [procs EXCEPT ![w] = Decided(w, buckets[KeyOf(w)])]
    /\ UNCHANGED <<now, storeVars, last, buckets, log, round, keyVars>>

\* compare_exchange_weak with a value another worker stored in between
cas_blind(stored, prev) == TRUE

cas_succeeds(stored, prev) == stored = prev

\* measure_and_replace: the compare-and-swap stores the new arrival time if the
\* bucket still holds what was loaded, else the decision is taken again on what
\* it holds now
Cas(w) ==
    /\ procs[w].pc = "cas"
    /\ IF cas_succeeds(buckets[KeyOf(w)], procs[w].prev)
       THEN /\ buckets' = [buckets EXCEPT ![KeyOf(w)] = procs[w].new]
            /\ procs' = [procs EXCEPT ![w].pc = "done",
                                      ![w].res = check_limit_result(procs[w].fn, TRUE)]
       ELSE /\ procs' = [procs EXCEPT ![w] = Decided(w, buckets[KeyOf(w)])]
            /\ UNCHANGED buckets
    /\ UNCHANGED <<now, storeVars, last, log, round, keyVars>>

\* Every check under way has returned
RoundEnd ==
    /\ round.active
    /\ \A w \in Workers : procs[w].pc \in {"idle", "done"}
    /\ procs' = [w \in Workers |-> IdleWorker]
    /\ round' = NoRound
    /\ UNCHANGED <<now, storeVars, last, buckets, log, keyVars>>

\* initialize_keys is called: at process start, or again later
InitializeKeys(write_ok, partial) ==
    /\ last.op = "none"
    /\ boot.generated < MaxKeys
    /\ \E out \in {initialize_keys(keyFile, keys, boot.generated, write_ok, partial)} :
        /\ keyFile' = out.file
        /\ keys' = out.keys
        /\ boot' = [boot EXCEPT
                !.generated = out.generated,
                !.first = IF out.ok /\ ~IsSome(@) THEN Some(out.key) ELSE @,
                !.persisted = IF out.generated > boot.generated
                                 /\ out.file.content = KeyPool[out.generated]
                              THEN Some(out.file.content) ELSE @]
        /\ last' = [op |-> "initialize_keys",
                    pre |-> [file |-> keyFile, keys |-> keys, boot |-> boot],
                    res |-> [ok |-> out.ok, err |-> out.err]]
    /\ UNCHANGED <<now, storeVars, limiterVars>>

\* The process ends and a new one starts: its OnceLock cells are empty
Restart ==
    /\ last.op = "none"
    /\ keys' = NoKeys
    /\ boot' = [boot EXCEPT !.first = None, !.restarted = @ \/ IsSome(boot.token)]
    /\ UNCHANGED <<now, storeVars, last, limiterVars, keyFile>>

\* Someone other than the server removes, empties or overwrites the key file
FileSet(content) ==
    /\ last.op = "none"
    /\ content # keyFile.content
    /\ keyFile' = [keyFile EXCEPT !.content = content]
    /\ boot' = [boot EXCEPT !.persisted = None]
    /\ UNCHANGED <<now, storeVars, last, limiterVars, keys>>

\* The permissions of the key file and its directory change
SetWritable(writable) ==
    /\ last.op = "none"
    /\ writable # keyFile.writable
    /\ keyFile' = [keyFile EXCEPT !.writable = writable]
    /\ UNCHANGED <<now, storeVars, last, limiterVars, keys, boot>>

\* The running process issues a login token
IssueToken ==
    /\ last.op = "none"
    /\ IsSome(keys.priv)
    /\ boot' = [boot EXCEPT
            !.token = Some(encode_jwt_with(generate_login_claims(now, "u1", "d1", 0),
                                           Unwrap(keys.priv))),
            !.restarted = FALSE]
    /\ UNCHANGED <<now, storeVars, last, limiterVars, keyFile, keys>>

\* The running process encodes claims and decodes the token as one of purpose p,
\* with its own public key and with the public key of every other pair
RoundTrip(claims, p) ==
    /\ last.op = "none"
    /\ IsSome(keys.priv) /\ IsSome(keys.pub)
    /\ \E token \in {encode_jwt_with(claims, Unwrap(keys.priv))} :
        last' = [op |-> "round_trip", claims |-> claims, p |-> p, t |-> now,
                 res |-> decode_jwt_with(token, Issuer(p), ClaimType(p), now, Unwrap(keys.pub)),
                 foreign |-> {k \in KeyPairs \ {Unwrap(keys.pub)} :
                                decode_jwt_with(token, Issuer(p), ClaimType(p), now, k).ok}]
    /\ UNCHANGED <<now, storeVars, limiterVars, keyVars>>

\* initialize_keys called by several threads of one process, step by step.
\* The call opens the key file and reads it (auth.rs 51-55)
KeysOpen(w) ==
    /\ last.op = "none"
    /\ procs[w].pc = "idle"
    /\ \E opened \in {open(keyFile, TRUE)} :
        /\ keyFile' = opened.file
        /\ procs' = [procs EXCEPT ![w] =
                        [pc |-> "opened", ok |-> opened.ok, seen |-> opened.file.content]]
    /\ UNCHANGED <<now, storeVars, last, buckets, log, round, keys, boot>>

\* The rest of read_key(true) on the bytes the call read, a generated key written
\* over what the file holds by now; read_key(false) when that failed; then the
\* two from_ed_pem (auth.rs 57-77)
KeysRead(w, write_ok, partial) ==
    /\ last.op = "none"
    /\ procs[w].pc = "opened"
    /\ boot.generated < MaxKeys
    /\ \E first \in {IF procs[w].ok
                      THEN read_key([keyFile EXCEPT !.content = procs[w].seen], TRUE,
                                    boot.generated, write_ok, partial)
                      ELSE KeyErr("io", keyFile, boot.generated)} :
       \E file \in {IF first.generated > boot.generated THEN first.file ELSE keyFile} :
       \E read \in {IF first.ok THEN first
                     ELSE read_key(file, FALSE, first.generated, write_ok, partial)} :
        /\ keyFile' = file
        /\ boot' = [boot EXCEPT
                !.generated = read.generated,
                !.persisted = IF first.generated > boot.generated
                              THEN (IF file.content = KeyPool[first.generated]
                                    THEN Some(file.content) ELSE None)
                              ELSE @]
        /\ procs' = [procs EXCEPT ![w] = keys_read_step(read)]
    /\ UNCHANGED <<now, storeVars, last, buckets, log, round, keys>>

\* PRIVATE_ED25519_KEY.set(enc) (auth.rs 78-80)
KeysSetPrivate(w) ==
    /\ last.op = "none"
    /\ procs[w].pc = "set_private"
    /\ \E private \in {OnceLock_set(keys.priv, procs[w].key)} :
        /\ keys' = [keys EXCEPT !.priv = private.cell]
        /\ procs' = [procs EXCEPT ![w] = private_set_step(private.ok, procs[w].key)]
    /\ UNCHANGED <<now, storeVars, last, buckets, log, round, keyFile, boot>>

\* PUBLIC_ED25519_KEY.set(dec) (auth.rs 81-84)
KeysSetPublic(w) ==
    /\ last.op = "none"
    /\ procs[w].pc = "set_public"
    /\ \E public \in {OnceLock_set(keys.pub, procs[w].key)} :
        /\ keys' = [keys EXCEPT !.pub = public.cell]
        /\ procs' = [procs EXCEPT ![w] = public_set_step(public.ok, procs[w].key)]
    /\ UNCHANGED <<now, storeVars, last, buckets, log, round, keyFile, boot>>

\* Every call has returned; the process goes on, or ends and a new one starts
KeysJoin(restart) ==
    /\ last.op = "none"
    /\ \A w \in Workers : procs[w].pc = "returned"
    /\ procs' = [w \in Workers |-> IdleWorker]
    /\ keys' = IF restart THEN NoKeys ELSE keys
    /\ UNCHANGED <<now, storeVars, last, buckets, log, round, keyFile, boot>>

\* Headers::from_request, in two steps. First the request decodes its token and
\* reads the device and the user rows (up to auth.rs 531); the stamp check that
\* follows works on the user row read here
HeadersRead(req) ==
    /\ last.op = "none"
    /\ last' = [op |-> "Headers_read", req |-> req, pre |-> DB]
    /\ UNCHANGED <<now, storeVars, limiterVars, keyVars>>

\* Between the two steps another request rotates the stamp of the user ...
ConcurrentRotateStamp(u) ==
    /\ last.op = "Headers_read"
    /\ u \in DOMAIN users
    /\ users[u].security_stamp < MaxStamp + 1
    /\ users' = [users EXCEPT ![u].security_stamp = @ + 1]
    /\ UNCHANGED <<now, devices, members, access, last, limiterVars, keyVars>>

\* ... or stores a stamp exception for the user
ConcurrentSetStampException(u, routes, expire) ==
    /\ last.op = "Headers_read"
    /\ u \in DOMAIN users
    /\ expire >= now
    /\ users' = [users EXCEPT ![u].stamp_exception =
                    MkStampException(routes, users[u].security_stamp, expire)]
    /\ users' # users
    /\ UNCHANGED <<now, devices, members, access, last, limiterVars, keyVars>>

\* Then the stamp check runs on the rows read, and user.save, when the expired
\* branch calls it, writes the row the request holds over the one stored by now
HeadersFinish(save_ok) ==
    /\ last.op = "Headers_read"
    /\ \E res \in {Headers_from_request(last.req, last.pre, save_ok)} :
        /\ users' = IF res.users # last.pre.users
                     THEN [u \in DOMAIN users |->
                            IF res.users[u] # last.pre.users[u] THEN res.users[u] ELSE users[u]]
                     ELSE users
        /\ last' = [op |-> "Headers", req |-> last.req, pre |-> last.pre, mid |-> users,
                    res |-> res, cols |-> <<>>]
    /\ UNCHANGED <<now, devices, members, access, limiterVars, keyVars>>

\* The request is over
Respond ==
    /\ last.op # "none"
    /\ last' = Idle
    /\ UNCHANGED <<now, users, devices, members, access, limiterVars, keyVars>>

(***************************************************************************)
(* Specifications                                                          *)
(***************************************************************************)
Init ==
    /\ now = IssueTime
    /\ users = [u \in {"u1"} |-> MkUser(0, None)]
    /\ devices = {<<"d1", "u1">>, <<"d2", "u2">>}
    /\ members = [k \in {<<"u1", "o1">>} |-> [atype |-> 0, status |-> 2]]
    /\ access = {}
    /\ last = Idle
    /\ buckets = FreshBuckets
    /\ log = <<>>
    /\ procs = [w \in Workers |-> IdleWorker]
    /\ round = NoRound
    /\ keyFile = MkFile(ServerKey, TRUE)
    /\ keys = [priv |-> Some(PRIVATE_ED25519_KEY), pub |-> Some(PUBLIC_ED25519_KEY)]
    /\ boot = Booted

\* Headers: the clock, the stamp and its exception vary
Next ==
    \/ last.op = "none" /\ \E t \in LoginTimes : ClockSet(t)
    \/ RotateStamp("u1")
    \/ last.op = "none" /\ \E routes \in SUBSET Routes, expire \in LoginTimes :
            SetStampException("u1", routes, expire)
    \/ last.op = "none" /\ \E req \in HeaderRequests(users), save_ok \in BOOLEAN : HeadersRequest(req, save_ok)
    \/ Respond

Spec == Init /\ [][Next]_vars

\* The organization tiers: the stamp, the membership and the collection access vary
NextOrg ==
    \/ RotateStamp("u1")
    \/ last.op = "none" /\ \E atype \in TypeCodes, status \in StatusCodes : SetMembership("u1", "o1", atype, status)
    \/ DeleteMembership("u1", "o1")
    \/ last.op = "none" /\ \E granted \in BOOLEAN : SetAccess("u1", "o1", "c1", granted)
    \/ last.op = "none" /\ \E req \in OrgRequests(users, 2) : OrgHeadersRequest(req, TRUE)
    \/ last.op = "none" /\ \E req \in OrgRequests(users, 2) : AdminHeadersRequest(req, TRUE)
    \/ last.op = "none" /\ \E req \in ManagerRequests(users) : ManagerHeadersRequest(req, TRUE)
    \/ last.op = "none" /\ \E req \in OrgRequests(users, 2) : ManagerHeadersLooseRequest(req, TRUE)
    \/ \E collections \in CollectionLists : FromLoose(collections)
    \/ last.op = "none" /\ \E req \in OrgRequests(users, 2) : OwnerHeadersRequest(req, TRUE)
    \/ last.op = "none" /\ \E req \in OrgRequests(users, 2) : OrgMemberHeadersRequest(req, TRUE)
    \/ Respond

SpecOrg == Init /\ [][NextOrg]_vars

\* The decode functions: the clock varies
NextJwt ==
    \/ last.op = "none" /\ \E t \in JwtTimes : ClockSet(t)
    \/ last.op = "none" /\ \E p \in Purposes, token \in JwtTokens : DecodeRequest(p, token)
    \/ Respond

SpecJwt == Init /\ [][NextJwt]_vars

\* The rate limiters, one check at a time: the clock and the buckets vary
NextLimit ==
    \/ Tick
    \/ last.op = "none" /\ \E fn \in CheckFns, ip \in Ips : CheckLimit(fn, ip)
    \/ Respond

SpecLimit == Init /\ [][NextLimit]_vars

\* The rate limiters under concurrent checks of one ip, step by step
NextLimitConc ==
    \/ TickRound
    \/ \E w \in Workers, fn \in CheckFns : StartCheck(w, fn, "ip1")
    \/ \E w \in Workers : Load(w)
    \/ \E w \in Workers : Cas(w)
    \/ RoundEnd

SpecLimitConc == Init /\ [][NextLimitConc]_vars

\* The whole chain, Headers and every tier on it, with the stamp, its exception,
\* the clock, the membership and the collection access varying
NextChain ==
    \/ last.op = "none" /\ \E t \in ChainTimes : ClockSet(t)
    \/ RotateStamp("u1")
    \/ last.op = "none" /\ \E expire \in ChainTimes : SetStampException("u1", {ChainRoute}, expire)
    \/ last.op = "none" /\ \E atype \in {0, 3} : SetMembership("u1", "o1", atype, 2)
    \/ last.op = "none" /\ \E granted \in BOOLEAN : SetAccess("u1", "o1", "c1", granted)
    \/ last.op = "none" /\ \E req \in ChainRequests(users), save_ok \in BOOLEAN :
            HeadersRequest(req, save_ok)
    \/ last.op = "none" /\ \E req \in ChainRequests(users), save_ok \in BOOLEAN :
            OrgHeadersRequest(req, save_ok)
    \/ last.op = "none" /\ \E req \in ChainRequests(users), save_ok \in BOOLEAN :
            AdminHeadersRequest(req, save_ok)
    \/ last.op = "none" /\ \E req \in ChainRequests(users), save_ok \in BOOLEAN :
            ManagerHeadersRequest(req, save_ok)
    \/ last.op = "none" /\ \E req \in ChainRequests(users), save_ok \in BOOLEAN :
            ManagerHeadersLooseRequest(req, save_ok)
    \/ \E collections \in CollectionLists : FromLoose(collections)
    \/ last.op = "none" /\ \E req \in ChainRequests(users), save_ok \in BOOLEAN :
            OwnerHeadersRequest(req, save_ok)
    \/ last.op = "none" /\ \E req \in ChainRequests(users), save_ok \in BOOLEAN :
            OrgMemberHeadersRequest(req, save_ok)
    \/ Respond

SpecChain == Init /\ [][NextChain]_vars

\* Headers interleaved with the writes of other requests to the same user
NextRace ==
    \/ last.op = "none" /\ \E t \in ChainTimes : ClockSet(t)
    \/ RotateStamp("u1")
    \/ last.op = "none" /\ \E routes \in SUBSET Routes, expire \in ChainTimes :
            SetStampException("u1", routes, expire)
    \/ last.op = "none" /\ \E req \in HeaderRequests(users) : HeadersRead(req)
    \/ ConcurrentRotateStamp("u1")
    \/ last.op = "Headers_read" /\ \E expire \in ChainTimes :
            ConcurrentSetStampException("u1", {ChainRoute}, expire)
    \/ last.op = "Headers_read" /\ \E save_ok \in BOOLEAN : HeadersFinish(save_ok)
    \/ Respond

SpecRace == Init /\ [][NextRace]_vars

\* A server that has never run: no key file, no key set
InitKeys ==
    /\ now = IssueTime
    /\ users = [u \in {"u1"} |-> MkUser(0, None)]
    /\ devices = {<<"d1", "u1">>, <<"d2", "u2">>}
    /\ members = [k \in {<<"u1", "o1">>} |-> [atype |-> 0, status |-> 2]]
    /\ access = {}
    /\ last = Idle
    /\ buckets = FreshBuckets
    /\ log = <<>>
    /\ procs = [w \in Workers |-> IdleWorker]
    /\ round = NoRound
    /\ keyFile = MkFile("absent", TRUE)
    /\ keys = NoKeys
    /\ boot = NoBoot

\* The key manager: the key file, the process and the clock vary
NextKeys ==
    \/ last.op = "none" /\ \E t \in LoginTimes : ClockSet(t)
    \/ last.op = "none" /\ \E write_ok \in BOOLEAN, partial \in BOOLEAN :
            InitializeKeys(write_ok, partial)
    \/ Restart
    \/ last.op = "none" /\ \E content \in ForeignContents : FileSet(content)
    \/ \E writable \in BOOLEAN : SetWritable(writable)
    \/ IssueToken
    \/ last.op = "none" /\ \E claims \in RoundTripClaims, p \in Purposes : RoundTrip(claims, p)
    \/ Respond

SpecKeys == InitKeys /\ [][NextKeys]_vars

\* Threads of one process call initialize_keys at once, while the key file varies
NextKeysConc ==
    \/ \E w \in Workers : KeysOpen(w)
    \/ last.op = "none" /\ \E w \in Workers, write_ok \in BOOLEAN, partial \in BOOLEAN :
            KeysRead(w, write_ok, partial)
    \/ \E w \in Workers : KeysSetPrivate(w)
    \/ \E w \in Workers : KeysSetPublic(w)
    \/ \E restart \in BOOLEAN : KeysJoin(restart)
    \/ last.op = "none" /\ \E content \in ForeignContents : FileSet(content)
    \/ \E writable \in BOOLEAN : SetWritable(writable)

SpecKeysConc == InitKeys /\ [][NextKeysConc]_vars

(***************************************************************************)
(* Properties of the decode functions (SpecJwt)                            *)
(***************************************************************************)
\* The token's signature is the server key's over its header and payload
SignedByServer(token) == token.parts /\ token.sig = ServerKey

\* C1: a token that carries the issuer of purpose P1 and is correctly signed by the
\* server key is rejected by the decode function of every other purpose P2, also
\* when P1 and P2 decode to the same claim struct.
C1_CrossPurposeRejected ==
    last.op = "decode_jwt" =>
        \A p1 \in Purposes :
            (/\ p1 # last.purpose
             /\ SignedByServer(last.token)
             /\ last.token.claims.iss = Issuer(p1))
            => (~last.res.ok /\ last.res.claims = None)

\* A delete token inside its validity window, signed by the server, was handed to
\* decode_verify_email (both decode to BasicJwtClaims) and rejected for its issuer
C1_Witness ==
    /\ last.op = "decode_jwt"
    /\ last.purpose = "verifyemail"
    /\ last.token = encode_jwt(JwtClaims("delete"))
    /\ ClaimType("delete") = ClaimType("verifyemail")
    /\ last.pre.now = IssueTime
    /\ ~last.res.ok
    /\ last.res.err = "Issuer is invalid"

\* C2: decode_jwt returns the token's claims if and only if the signature verifies
\* under the server's public key, nbf - 30 <= now <= exp + 30, and the token's
\* issuer is the issuer of the requested purpose; otherwise it returns an error.
C2_DecodeIff ==
    last.op = "decode_jwt" =>
        LET c == last.token.claims
            accepted ==
                /\ SignedByServer(last.token)
                /\ c.nbf - 30 <= last.pre.now
                /\ last.pre.now <= c.exp + 30
                /\ c.iss = Issuer(last.purpose)
        IN  /\ last.res.ok <=> accepted
            /\ last.res.ok => last.res.claims = Some(c) /\ last.res.err = ""
            /\ ~last.res.ok => last.res.claims = None /\ last.res.err # ""

\* A token was decoded at the last second of the leeway after its expiry, and one
\* second later the same kind of token would be outside it
C2_Witness ==
    /\ last.op = "decode_jwt"
    /\ last.res.ok
    /\ last.pre.now = last.token.claims.exp + 30
    /\ last.pre.now > last.token.claims.nbf

(***************************************************************************)
(* Properties of Headers (Spec)                                            *)
(***************************************************************************)
\* Whether ops names the lookup or check x
Did(ops, x) == \E i \in 1..Len(ops) : ops[i] = x

\* The claims of the login token of a request whose token decode_login accepts
TokenClaims(req) == access_token(Unwrap(req.auth)).claims

\* The request reaches the stamp check against state db: its login token decodes,
\* the connection is obtained, and device and user are found
ReachesStampCheck(req, db) ==
    /\ req.auth # None
    /\ decode_login(access_token(Unwrap(req.auth)), db.now).ok
    /\ req.conns >= 1
    /\ <<TokenClaims(req).device, TokenClaims(req).sub>> \in db.devices
    /\ TokenClaims(req).sub \in DOMAIN db.users

\* The token of the request carries another stamp than the user's current one
Stale(req, db) == TokenClaims(req).sstamp # db.users[TokenClaims(req).sub].security_stamp

\* The user of the request has a stamp exception whose route set contains the
\* request's route and whose snapshot is the token's stamp
CoveredByException(req, db) ==
    LET c == TokenClaims(req)
        stored == db.users[c.sub].stamp_exception
    IN  /\ stored # None
        /\ Unwrap(stored).parses
        /\ req.route # None
        /\ Unwrap(req.route) \in Unwrap(stored).routes
        /\ Unwrap(stored).security_stamp = c.sstamp

\* The expiry of the stamp exception of the request's user
ExceptionExpiry(req, db) == Unwrap(db.users[TokenClaims(req).sub].stamp_exception).expire

\* C3 (as stated): Headers accepts a decoded login token only if its stamp is the
\* user's current stamp, or the user has a stamp exception whose routes contain
\* the current route, whose snapshot equals the token's stamp and whose expiry is
\* in the future (later than the current time).
C3_ExpiryInFuture ==
    (last.op = "Headers" /\ last.res.ok) =>
        /\ ReachesStampCheck(last.req, last.pre)
        /\ \/ ~Stale(last.req, last.pre)
           \/ /\ CoveredByException(last.req, last.pre)
              /\ ExceptionExpiry(last.req, last.pre) > last.pre.now

\* C3 (amended): Headers accepts a decoded login token only if its stamp is the
\* user's current stamp, or the user has a stamp exception whose routes contain
\* the current route, whose snapshot equals the token's stamp and whose expiry has
\* not passed (the current time is at most the expiry); so a token issued with a
\* stamp the user no longer has is rejected on every route no such exception covers.
C3_StampOrException ==
    last.op = "Headers" =>
        /\ last.res.ok =>
                /\ ReachesStampCheck(last.req, last.pre)
                /\ \/ ~Stale(last.req, last.pre)
                   \/ /\ CoveredByException(last.req, last.pre)
                      /\ ExceptionExpiry(last.req, last.pre) >= last.pre.now
        /\ (/\ ReachesStampCheck(last.req, last.pre)
            /\ Stale(last.req, last.pre)
            /\ ~(/\ CoveredByException(last.req, last.pre)
                 /\ ExceptionExpiry(last.req, last.pre) >= last.pre.now)) => ~last.res.ok

\* After a rotation, a token with the old stamp was rejected on a route that the
\* user's unexpired exception for that stamp does not list
C3_Witness ==
    /\ last.op = "Headers"
    /\ ReachesStampCheck(last.req, last.pre)
    /\ Stale(last.req, last.pre)
    /\ last.pre.users["u1"].stamp_exception # None
    /\ Unwrap(last.pre.users["u1"].stamp_exception).security_stamp = TokenClaims(last.req).sstamp
    /\ Unwrap(last.pre.users["u1"].stamp_exception).expire > last.pre.now
    /\ last.req.route # None
    /\ Unwrap(last.req.route) \notin Unwrap(last.pre.users["u1"].stamp_exception).routes
    /\ ~last.res.ok

\* The request finds an exception on the user whose expiry has passed: it reaches
\* the stamp check with a stale token on a named route
FindsExpiredException(req, db) ==
    /\ ReachesStampCheck(req, db)
    /\ Stale(req, db)
    /\ req.route # None
    /\ db.users[TokenClaims(req).sub].stamp_exception # None
    /\ Unwrap(db.users[TokenClaims(req).sub].stamp_exception).parses
    /\ db.now > Unwrap(db.users[TokenClaims(req).sub].stamp_exception).expire

\* C4: a stale-token request that finds the user's stamp exception expired (on
\* the named route it asks for) attempts the save of the user with the exception
\* cleared and is rejected with the expired-exception failure whether or not the
\* save succeeds; once the save succeeded, every stale-token request for that
\* user evaluated on the stored state is rejected as having no exception.
C4_ExpiredExceptionCleared ==
    (last.op = "Headers" /\ FindsExpiredException(last.req, last.pre)) =>
        LET u == TokenClaims(last.req).sub
            cleared == [last.pre.users EXCEPT ![u].stamp_exception = None]
        IN  /\ ~last.res.ok
            /\ last.res.err = "Stamp exception is expired"
            /\ Did(last.res.ops, "User::save")
            /\ users \in {last.pre.users, cleared}
            /\ users = cleared =>
                \A req \in HeaderRequests(users), save_ok \in BOOLEAN :
                    (/\ ReachesStampCheck(req, DB)
                     /\ TokenClaims(req).sub = u
                     /\ Stale(req, DB))
                    => Headers_from_request(req, DB, save_ok).err = "Invalid security stamp"

\* Such a request was answered and its save succeeded: the stored user has no
\* exception any more
C4_Witness ==
    /\ last.op = "Headers"
    /\ FindsExpiredException(last.req, last.pre)
    /\ last.res.err = "Stamp exception is expired"
    /\ users # last.pre.users
    /\ users["u1"].stamp_exception = None

\* Such a request was answered and its save failed
C4_SaveFailed ==
    /\ last.op = "Headers"
    /\ FindsExpiredException(last.req, last.pre)
    /\ last.res.err = "Stamp exception is expired"
    /\ users = last.pre.users

(***************************************************************************)
(* Properties of the organization tiers (SpecOrg)                          *)
(***************************************************************************)
\* What Headers and OrgHeaders make of the answered request in the state it was
\* answered in
HeadersOutcome == Headers_from_request(last.req, last.pre, TRUE)
OrgOutcome == OrgHeaders_from_request(last.req, last.pre, TRUE)
OrgCtx == Unwrap(OrgOutcome.ctx)

TierOps == {"AdminHeaders", "ManagerHeaders", "ManagerHeadersLoose", "OwnerHeaders",
            "OrgMemberHeaders"}

\* OrgHeaders succeeds and the membership is Confirmed with one of the given types
ConfirmedAs(types) ==
    /\ OrgOutcome.ok
    /\ OrgCtx.membership_status = "Confirmed"
    /\ OrgCtx.membership_type \in types

\* C5: AdminHeaders succeeds if and only if OrgHeaders succeeds for the same
\* request and the membership is Confirmed with type Admin or Owner; a member
\* for whom OrgHeaders succeeds and who is of type Manager or User, or an Admin or
\* Owner who is not Confirmed, is denied with the admin-specific reason.
C5_AdminIff ==
    last.op = "AdminHeaders" =>
        /\ last.res.ok <=> ConfirmedAs({"Admin", "Owner"})
        /\ (OrgOutcome.ok /\ ~ConfirmedAs({"Admin", "Owner"})) =>
                last.res.err = "You need to be Admin or Owner to call this endpoint"

\* A confirmed Manager was denied by AdminHeaders with the admin-specific reason
C5_Witness ==
    /\ last.op = "AdminHeaders"
    /\ ConfirmedAs({"Manager"})
    /\ ~last.res.ok
    /\ last.res.err = "You need to be Admin or Owner to call this endpoint"

\* A well-formed collection id resolves from path segment 3 or else the
\* collectionId query value
ColResolves(req) ==
    \/ (req.p3 # None /\ Uuid_parse_str_is_ok(Unwrap(req.p3)))
    \/ (req.qcol # None /\ Uuid_parse_str_is_ok(Unwrap(req.qcol)))

ResolvedCol(req) ==
    IF req.p3 # None /\ Uuid_parse_str_is_ok(Unwrap(req.p3)) THEN Unwrap(req.p3)
    ELSE Unwrap(req.qcol)

\* The stored access rows give the request's member the collection
HasAccess(db, req, col) ==
    <<OrgCtx.membership.user_uuid, OrgCtx.membership.org_uuid, col>> \in db.access

\* C6 (as stated): strict ManagerHeaders succeeds if and only if OrgHeaders
\* succeeds, the membership is Confirmed with type Manager, Admin or Owner, a
\* well-formed collection id resolves from the path or else the query, and the
\* membership has access to that collection.
C6_ManagerIff ==
    last.op = "ManagerHeaders" =>
        (last.res.ok <=>
            /\ ConfirmedAs({"Manager", "Admin", "Owner"})
            /\ ColResolves(last.req)
            /\ HasAccess(last.pre, last.req, ResolvedCol(last.req)))

\* C6 (amended): strict ManagerHeaders succeeds if and only if OrgHeaders
\* succeeds, the membership is Confirmed with type Manager, Admin or Owner, a
\* well-formed collection id resolves from the path or else the query, the
\* database connection for the collection check is obtained, and the membership
\* has access to that collection; a confirmed Manager, Admin or Owner is denied
\* when no collection id resolves and when the collection-access check fails.
C6_ManagerIffConn ==
    last.op = "ManagerHeaders" =>
        /\ last.res.ok <=>
            /\ ConfirmedAs({"Manager", "Admin", "Owner"})
            /\ ColResolves(last.req)
            /\ last.req.conns >= 3
            /\ HasAccess(last.pre, last.req, ResolvedCol(last.req))
        /\ (ConfirmedAs({"Manager", "Admin", "Owner"}) /\ ~ColResolves(last.req)) =>
                last.res.err = "Error getting the collection id"
        /\ (/\ ConfirmedAs({"Manager", "Admin", "Owner"})
            /\ ColResolves(last.req)
            /\ last.req.conns >= 3
            /\ ~HasAccess(last.pre, last.req, ResolvedCol(last.req))) =>
                last.res.err = "The current user isn't a manager for this collection"

\* A confirmed member of manager level asked with a malformed path segment and
\* a well-formed query value for a collection it has access to, and was accepted
C6_Witness ==
    /\ last.op = "ManagerHeaders"
    /\ ConfirmedAs({"Manager", "Admin", "Owner"})
    /\ last.req.p3 = Some("junk")
    /\ last.req.qcol = Some("c1")
    /\ last.res.ok

\* C7 (the guard): ManagerHeadersLoose succeeds exactly when OrgHeaders succeeds
\* and the membership is Confirmed with type Manager, Admin or Owner, whatever
\* collection ids the request names, and it makes no collection-access check.
C7_LooseIff ==
    last.op = "ManagerHeadersLoose" =>
        /\ last.res.ok <=> ConfirmedAs({"Manager", "Admin", "Owner"})
        /\ ~Did(last.res.ops, "Collection::can_access_collection")

\* Collection id number i of the list is well-formed and the stored access rows
\* give it to the member of the request
ColGood(i) ==
    /\ Uuid_parse_str_is_ok(last.cols[i])
    /\ HasAccess(last.pre, last.req, last.cols[i])

\* The number of collection-access checks made
AccessChecks(ops) ==
    Cardinality({i \in 1..Len(ops) : ops[i] = "Collection::can_access_collection"})

\* C7 (from_loose): ManagerHeaders::from_loose yields a strict ManagerHeaders
\* if and only if every collection id of the list is well-formed and accessible
\* to the membership; it fails at the first id that is malformed or inaccessible,
\* checking no id after it, and an empty list yields a ManagerHeaders with no
\* collection checked.
C7_FromLooseIff ==
    last.op = "from_loose" =>
        LET n == Len(last.cols)
            bad == {i \in 1..n : ~ColGood(i)}
        IN  /\ last.res.ok <=> bad = {}
            /\ bad = {} => AccessChecks(last.res.ops) = n
            /\ bad # {} =>
                LET k == CHOOSE i \in bad : \A j \in bad : i <= j
                IN  IF Uuid_parse_str_is_ok(last.cols[k])
                    THEN /\ last.res.err = "You don't have access to all collections!"
                         /\ AccessChecks(last.res.ops) = k
                    ELSE /\ last.res.err = "Collection Id is malformed!"
                         /\ AccessChecks(last.res.ops) = k - 1
            /\ last.res.ok =>
                Unwrap(last.res.ctx).org_id = OrgCtx.membership.org_uuid

\* C7: the ManagerHeadersLoose guard and ManagerHeaders::from_loose together:
\* the guard succeeds exactly for a Confirmed member of manager level without a
\* collection check, and from_loose succeeds exactly when every listed id is
\* well-formed and accessible, stopping at the first that is not.
C7_Guard_And_FromLoose == C7_LooseIff /\ C7_FromLooseIff

\* from_loose was given an accessible id followed by an inaccessible one and
\* failed on the second, after it had checked both
C7_Witness ==
    /\ last.op = "from_loose"
    /\ last.cols = <<"c1", "c2">>
    /\ ColGood(1)
    /\ ~last.res.ok
    /\ last.res.err = "You don't have access to all collections!"
    /\ AccessChecks(last.res.ops) = 2

\* from_loose was given the empty list and built a ManagerHeaders
C7_EmptyList ==
    /\ last.op = "from_loose"
    /\ last.cols = <<>>
    /\ last.res.ok
    /\ last.res.ops = <<>>

\* C8: OwnerHeaders succeeds if and only if OrgHeaders succeeds and the
\* membership is Confirmed with type exactly Owner; no other type and no Owner
\* that is not Confirmed obtains an OwnerHeaders context.
C8_OwnerIff ==
    last.op = "OwnerHeaders" =>
        /\ last.res.ok <=> ConfirmedAs({"Owner"})
        /\ last.res.ok =>
                /\ last.pre.members[<<OrgCtx.user.uuid, Unwrap(last.res.ctx).org_id>>].atype = 0
                /\ last.pre.members[<<OrgCtx.user.uuid, Unwrap(last.res.ctx).org_id>>].status = 2

\* A confirmed Admin was denied by OwnerHeaders
C8_Witness ==
    /\ last.op = "OwnerHeaders"
    /\ ConfirmedAs({"Admin"})
    /\ ~last.res.ok
    /\ last.res.err = "You need to be Owner to call this endpoint"

\* The request, but for the status of the membership, gets through OrgHeaders:
\* Headers accepts it, an organization id resolves, the connection is obtained,
\* and the membership row is found with a type that decodes
MemberOfDecodableType ==
    /\ HeadersOutcome.ok
    /\ IsSome(url_org_id(last.req))
    /\ last.req.conns >= 2
    /\ <<Unwrap(HeadersOutcome.ctx).user.uuid, Unwrap(url_org_id(last.req))>>
            \in DOMAIN last.pre.members
    /\ last.pre.members[<<Unwrap(HeadersOutcome.ctx).user.uuid,
                          Unwrap(url_org_id(last.req))>>].atype \in {0, 1, 2, 3}

StoredStatus ==
    last.pre.members[<<Unwrap(HeadersOutcome.ctx).user.uuid,
                       Unwrap(url_org_id(last.req))>>].status

\* C9 (as stated): OrgMemberHeaders succeeds for every membership whose type is
\* User or higher, whatever the status of the membership.
C9_AnyStatus ==
    (last.op = "OrgMemberHeaders" /\ MemberOfDecodableType) => last.res.ok

\* C9 (amended): OrgMemberHeaders succeeds for every membership whose type is
\* User or higher and whose status is Invited, Accepted or Confirmed, the status
\* making no difference among these: it succeeds exactly when OrgHeaders does. A
\* membership whose status does not decode (revoked) is not recognized.
C9_AnyDecodableStatus ==
    last.op = "OrgMemberHeaders" =>
        /\ last.res.ok <=> OrgOutcome.ok
        /\ MemberOfDecodableType => (last.res.ok <=> StoredStatus \in {0, 1, 2})

\* An invited member of type User was recognized by OrgMemberHeaders
C9_Witness ==
    /\ last.op = "OrgMemberHeaders"
    /\ MemberOfDecodableType
    /\ StoredStatus = 0
    /\ OrgCtx.membership_type = "User"
    /\ last.res.ok

\* The role gates and the collection check
GateOps == {"is_member", "is_confirmed_and_admin", "is_confirmed_and_manager",
            "is_confirmed_and_owner", "Collection::can_access_collection"}

\* C10: for every org-scoped tier, if Headers fails for the request the tier
\* fails with the failure of Headers and makes no membership lookup; if
\* OrgHeaders fails the tier fails with the failure of OrgHeaders and
\* evaluates neither a role gate nor the collection-access check; a tier context
\* is built only when OrgHeaders, and with it Headers, succeeded, and from their
\* user and organization.
C10_FailurePropagates ==
    last.op \in TierOps =>
        /\ ~HeadersOutcome.ok =>
                /\ ~last.res.ok
                /\ last.res.err = HeadersOutcome.err
                /\ ~Did(last.res.ops, "Membership::find_by_user_and_org")
        /\ ~OrgOutcome.ok =>
                /\ ~last.res.ok
                /\ last.res.err = OrgOutcome.err
                /\ \A i \in 1..Len(last.res.ops) : last.res.ops[i] \notin GateOps
        /\ last.res.ok =>
                /\ HeadersOutcome.ok
                /\ OrgOutcome.ok
                /\ Unwrap(last.res.ctx).user = Unwrap(HeadersOutcome.ctx).user
                /\ Unwrap(last.res.ctx).user = OrgCtx.user
                /\ last.op # "ManagerHeadersLoose" =>
                        Unwrap(last.res.ctx).org_id = OrgCtx.membership.org_uuid

\* A tier failed because OrgHeaders found no membership, Headers having
\* succeeded: the failure is that of OrgHeaders and no gate was evaluated
C10_Witness ==
    /\ last.op \in TierOps
    /\ HeadersOutcome.ok
    /\ ~OrgOutcome.ok
    /\ last.res.err = "The current user isn't member of the organization"
    /\ Did(last.res.ops, "Membership::find_by_user_and_org")

\* A tier failed because Headers rejected a stale token
C10_HeadersFailed ==
    /\ last.op \in TierOps
    /\ ~HeadersOutcome.ok
    /\ last.res.err = "Invalid security stamp"

(***************************************************************************)
(* Properties of the rate limiters (SpecLimit)                             *)
(***************************************************************************)
\* The completed checks of one check function for one ip, in order
ChecksOf(fn, ip) == SelectSeq(log, LAMBDA e : e.fn = fn /\ e.ip = ip)

\* Burst size and refill period configured for the limiter behind a check function
BurstOf(fn) == IF fn = "check_limit_login" THEN LoginBurst ELSE AdminBurst
PeriodOf(fn) == IF fn = "check_limit_login" THEN LoginSeconds ELSE AdminSeconds

\* C11: for a limiter with burst size N and refill period T, starting from a
\* full bucket, the first N checks from one ip made within one period succeed and
\* the (N+1)-th, made within that period, is rejected with a 429 error; a check
\* made once a refill interval T has elapsed with no check from that ip succeeds.
C11_BurstThenThrottle ==
    \A fn \in CheckFns, ip \in Ips :
        LET S == ChecksOf(fn, ip)
            N == BurstOf(fn)
            T == PeriodOf(fn)
        IN  /\ \A i \in 1..Len(S) :
                    (i <= N /\ S[i].t < S[1].t + T) => S[i].res.ok
            /\ (Len(S) > N /\ S[N + 1].t < S[1].t + T) =>
                    (~S[N + 1].res.ok /\ S[N + 1].res.code = 429)
            /\ \A i \in 2..Len(S) :
                    S[i].t >= S[i - 1].t + T => S[i].res.ok

\* One ip made LoginBurst login checks that succeeded and one more within the
\* period that got 429, waited a refill interval, and its next check succeeded
C11_Witness ==
    LET S == ChecksOf("check_limit_login", "ip1")
    IN  /\ Len(S) = LoginBurst + 2
        /\ \A i \in 1..LoginBurst : S[i].res.ok
        /\ S[LoginBurst + 1].t < S[1].t + LoginSeconds
        /\ S[LoginBurst + 1].res.code = 429
        /\ S[LoginBurst + 2].t >= S[LoginBurst + 1].t + LoginSeconds
        /\ S[LoginBurst + 2].res.ok

(***************************************************************************)
(* Properties of concurrent rate-limit checks (SpecLimitConc)              *)
(***************************************************************************)
\* The tokens a bucket with stored arrival time tat holds at clock reading t: how
\* many checks in a row it allows
RECURSIVE Available(_, _, _)
Available(tat, t, quota) ==
    IF gcra_decide(tat, t, quota).ok
    THEN 1 + Available(gcra_decide(tat, t, quota).next, t, quota)
    ELSE 0

\* The stored arrival time after n allowed checks at clock reading t
RECURSIVE Consumed(_, _, _, _)
Consumed(tat, t, quota, n) ==
    IF n = 0 THEN tat ELSE Consumed(gcra_decide(tat, t, quota).next, t, quota, n - 1)

QuotaOf(fn) == [period |-> PeriodOf(fn), burst |-> BurstOf(fn)]
BucketOf(fn, ip) == <<IF fn = "check_limit_login" THEN "login" ELSE "admin", ip>>

\* The workers checking (fn, ip) in this round, and those of them that returned
Checking(fn, ip) == {w \in Workers : procs[w].pc # "idle" /\ procs[w].fn = fn /\ procs[w].ip = ip}
Returned(fn, ip) == {w \in Checking(fn, ip) : procs[w].pc = "done"}
Allowed(fn, ip) == {w \in Returned(fn, ip) : procs[w].res.ok}

Min(a, b) == IF a <= b THEN a ELSE b

\* C12: under every interleaving of m concurrent checks for one ip on one
\* limiter, started with k tokens available and with no tick of the clock in
\* between, exactly min(k, m) checks succeed once all have returned, the others
\* get 429, and the bucket has given out one token for each success: no two
\* checks consume the same token.
C12_AtomicPerKey ==
    (round.active /\ ~round.ticked) =>
        \A fn \in CheckFns, ip \in Ips :
            LET k == Available(round.start[BucketOf(fn, ip)], round.t, QuotaOf(fn))
                m == Cardinality(Checking(fn, ip))
                n == Cardinality(Allowed(fn, ip))
            IN  /\ n <= k
                /\ Returned(fn, ip) = Checking(fn, ip) =>
                        /\ n = Min(k, m)
                        /\ \A w \in Returned(fn, ip) \ Allowed(fn, ip) :
                                procs[w].res.code = 429
                        /\ buckets[BucketOf(fn, ip)] =
                                Consumed(round.start[BucketOf(fn, ip)], round.t, QuotaOf(fn), n)

\* Two workers checked the same login key concurrently with one token left: one had
\* to take its decision again after the other's compare-and-swap, and got 429
C12_Witness ==
    /\ round.active
    /\ ~round.ticked
    /\ Available(round.start[<<"login", "ip1">>], round.t, QuotaOf("check_limit_login")) = 1
    /\ Cardinality(Returned("check_limit_login", "ip1")) >= 2
    /\ Cardinality(Allowed("check_limit_login", "ip1")) = 1
    /\ \E w \in Returned("check_limit_login", "ip1") :
            /\ ~procs[w].res.ok
            /\ procs[w].prev # round.start[<<"login", "ip1">>]

(***************************************************************************)
(* Frame of a rate-limit check (SpecLimit)                                 *)
(***************************************************************************)
\* C13: a check on limiter L for ip K leaves the bucket of every other ip on L
\* and every bucket of the other limiter as it was, and a throttled check leaves
\* the bucket of (L, K) as it was too; so an ip whose login bucket is exhausted
\* does not take a token from another ip or from the admin limiter.
C13_OtherBucketsUntouched ==
    last.op \in CheckFns =>
        /\ \A key \in Limiters \X Ips :
                key # BucketOf(last.op, last.ip) => buckets[key] = last.pre[key]
        /\ ~last.res.ok => buckets = last.pre
        /\ last.res.ok => buckets[BucketOf(last.op, last.ip)] # last.pre[BucketOf(last.op, last.ip)]

\* With the login bucket of ip1 exhausted, a login check of ip2 succeeded, and the
\* admin bucket of ip1 is still full
C13_Witness ==
    /\ last.op = "check_limit_login"
    /\ last.ip = "ip2"
    /\ last.res.ok
    /\ Available(last.pre[<<"login", "ip1">>], log[Len(log)].t, QuotaOf("check_limit_login")) = 0
    /\ \E i \in 1..Len(log) : log[i].ip = "ip1" /\ log[i].res.code = 429
    /\ buckets[<<"admin", "ip1">>] = 0

(***************************************************************************)
(* Key manager properties                                                  *)
(***************************************************************************)
InitCalled == last.op = "initialize_keys"

\* C14: the signing keys are set at most once per process: a successful
\* initialize_keys finds both cells empty and sets both to the keys of one pair,
\* every call after the first successful one returns an error and leaves the cells
\* as they are, and at every moment the keys in use are those the first successful
\* call of the process set (none before it)
C14_KeysSetOnce ==
    /\ (InitCalled /\ last.res.ok) =>
            /\ last.pre.keys = NoKeys
            /\ IsSome(keys.priv) /\ keys.pub = keys.priv
    /\ (InitCalled /\ IsSome(last.pre.boot.first)) =>
            /\ ~last.res.ok
            /\ keys = last.pre.keys
    /\ keys = [priv |-> boot.first, pub |-> boot.first]

\* A later call read a key other than the one in use, and failed
C14_Witness ==
    /\ InitCalled
    /\ IsSome(last.pre.boot.first)
    /\ ~last.res.ok
    /\ keyFile.content \in KeyPairs
    /\ keyFile.content # Unwrap(keys.priv)

\* C15: when the key file exists, is not empty and does not hold an Ed25519
\* private key (bytes that are no private key at all, or a private key of another
\* kind), initialize_keys fails, sets no key, generates none and leaves the file
\* as it is; a key is generated, and the file written, only by a call that found
\* the file absent or empty
C15_UnparsableFileKept ==
    /\ (InitCalled /\ last.pre.file.content \in {"corrupt", RsaKey}) =>
            /\ ~last.res.ok
            /\ keys = last.pre.keys
            /\ keyFile = last.pre.file
            /\ boot.generated = last.pre.boot.generated
    /\ (InitCalled /\ (boot.generated > last.pre.boot.generated \/ keyFile # last.pre.file)) =>
            last.pre.file.content \in {"absent", "empty"}

\* A process without keys called initialize_keys on a writable file of bytes that
\* are no private key
C15_Witness ==
    /\ InitCalled
    /\ last.pre.file = MkFile("corrupt", TRUE)
    /\ last.pre.keys = NoKeys
    /\ ~last.res.ok

\* The token of boot.token, and whether now lies in its validity window
Issued == Unwrap(boot.token)
Unexpired(token) == token.claims.nbf <= now /\ now <= token.claims.exp

\* C16: the key pair is stable across restarts. A successful initialize_keys that
\* found no key file generated a key pair, set it and left its private key in the
\* file; a successful initialize_keys on the file a process generated, still in
\* place, sets the key of that file and leaves the file as it is; and a token
\* signed before a restart with the key of the file in place, unexpired now, is
\* decoded by a process that has initialized its keys after the restart
C16_StableAcrossRestarts ==
    /\ (InitCalled /\ last.res.ok /\ last.pre.file.content = "absent") =>
            /\ boot.generated = last.pre.boot.generated + 1
            /\ keys.priv = Some(KeyPool[boot.generated])
            /\ keyFile.content = KeyPool[boot.generated]
            /\ boot.persisted = keys.priv
    /\ (InitCalled /\ last.res.ok /\ IsSome(last.pre.boot.persisted)) =>
            /\ keys.priv = last.pre.boot.persisted
            /\ keys.pub = last.pre.boot.persisted
            /\ keyFile = last.pre.file
    /\ (/\ IsSome(boot.token) /\ boot.restarted
        /\ boot.persisted = Some(Issued.sig)
        /\ IsSome(keys.pub)
        /\ Unexpired(Issued)) =>
            LET res == decode_jwt_with(Issued, Issuer("login"), ClaimType("login"), now,
                                       Unwrap(keys.pub))
            IN  res.ok /\ res.claims = Some(Issued.claims)

\* A process that loaded the key an earlier process generated holds a token that
\* process issued
C16_Witness ==
    /\ InitCalled /\ last.res.ok
    /\ IsSome(last.pre.boot.persisted)
    /\ IsSome(boot.token) /\ boot.restarted
    /\ boot.persisted = Some(Issued.sig)
    /\ Unexpired(Issued)
    /\ now > IssueTime

RoundTripDone == last.op = "round_trip"

FoundMember ==
    /\ HeadersOutcome.ok
    /\ IsSome(url_org_id(last.req))
    /\ last.req.conns >= 2
    /\ <<Unwrap(HeadersOutcome.ctx).user.uuid, Unwrap(url_org_id(last.req))>>
            \in DOMAIN last.pre.members

StoredType ==
    last.pre.members[<<Unwrap(HeadersOutcome.ctx).user.uuid,
                       Unwrap(url_org_id(last.req))>>].atype

\* C18: when the stored membership type is a number that names no type, OrgHeaders
\* fails with "Unknown user type in the database", whatever the stored status; when
\* the type is recognized and the stored status names no status, it fails with
\* "User status is either revoked or invalid."; every org-scoped tier fails the same
\* way and builds no context; a successful OrgHeaders carries the type and status
\* the stored numbers name, never a default
C18_UnknownEncodingFails ==
    (last.op \in TierOps \cup {"OrgHeaders"} /\ FoundMember) =>
        /\ MembershipType_from_i32(StoredType) = "-" =>
                /\ ~last.res.ok
                /\ last.res.err = "Unknown user type in the database"
                /\ last.res.ctx = None
        /\ (/\ MembershipType_from_i32(StoredType) # "-"
            /\ MembershipStatus_from_i32(StoredStatus) = "-") =>
                /\ ~last.res.ok
                /\ last.res.err = "User status is either revoked or invalid."
                /\ last.res.ctx = None
        /\ (last.op = "OrgHeaders" /\ last.res.ok) =>
                /\ Unwrap(last.res.ctx).membership_type = MembershipType_from_i32(StoredType)
                /\ Unwrap(last.res.ctx).membership_status
                        = MembershipStatus_from_i32(StoredStatus)

\* A tier was asked for a member whose stored type and stored status both name nothing
C18_Witness ==
    /\ last.op \in TierOps
    /\ FoundMember
    /\ StoredType = 4
    /\ StoredStatus = 3
    /\ ~last.res.ok

MembershipTypes == {"Owner", "Admin", "Manager", "User"}

\* The order of the membership types is total, antisymmetric and transitive, with
\* Owner above Admin above Manager above User
RoleOrder ==
    /\ \A a, b \in MembershipTypes : TypeGe(a, b) \/ TypeGe(b, a)
    /\ \A a, b \in MembershipTypes : (TypeGe(a, b) /\ TypeGe(b, a)) => a = b
    /\ \A a, b, c \in MembershipTypes : (TypeGe(a, b) /\ TypeGe(b, c)) => TypeGe(a, c)
    /\ ~TypeGe("Admin", "Owner") /\ ~TypeGe("Manager", "Admin") /\ ~TypeGe("User", "Manager")

\* C19: the order of the roles is total and transitive, Owner > Admin > Manager >
\* User, and the gates nest: a request OwnerHeaders accepts is one AdminHeaders
\* accepts in the same state, a request AdminHeaders accepts is one
\* ManagerHeadersLoose accepts, and a request ManagerHeadersLoose accepts is one
\* OrgMemberHeaders accepts
C19_GatesNest ==
    /\ RoleOrder
    /\ (last.op = "OwnerHeaders" /\ last.res.ok) =>
            AdminHeaders_from_request(last.req, last.pre, TRUE).ok
    /\ (last.op = "AdminHeaders" /\ last.res.ok) =>
            ManagerHeadersLoose_from_request(last.req, last.pre, TRUE).ok
    /\ (last.op = "ManagerHeadersLoose" /\ last.res.ok) =>
            OrgMemberHeaders_from_request(last.req, last.pre, TRUE).ok

\* OwnerHeaders accepted the request of a confirmed Owner
C19_Witness ==
    /\ last.op = "OwnerHeaders"
    /\ last.res.ok
    /\ FoundMember
    /\ StoredType = 0

\* The request holds a login token decode_login accepts and obtains a connection;
\* the rows its lookups are made for are stored
ReachesLookups ==
    /\ last.req.auth # None
    /\ decode_login(access_token(Unwrap(last.req.auth)), last.pre.now).ok
    /\ last.req.conns >= 1

DeviceStored ==
    <<TokenClaims(last.req).device, TokenClaims(last.req).sub>> \in last.pre.devices

UserStored == TokenClaims(last.req).sub \in DOMAIN last.pre.users

\* C20: a Headers context that is built carries the device whose id is the
\* token's device and whose owner is the token's sub, and the stored user whose id
\* is the token's sub; when no device with that id and owner is stored the
\* derivation fails with "Invalid device id" without looking the user up, and when
\* the device is stored but the user is not it fails with "Device has no user
\* associated"; both failures come before any stamp check and change nothing
C20_ContextOfToken ==
    last.op = "Headers" =>
        /\ last.res.ok =>
                /\ ReachesLookups /\ DeviceStored /\ UserStored
                /\ Unwrap(last.res.ctx).device.uuid = TokenClaims(last.req).device
                /\ Unwrap(last.res.ctx).device.user_uuid = TokenClaims(last.req).sub
                /\ Unwrap(last.res.ctx).user.uuid = TokenClaims(last.req).sub
                /\ Unwrap(last.res.ctx).user.security_stamp
                        = last.pre.users[TokenClaims(last.req).sub].security_stamp
        /\ (ReachesLookups /\ ~DeviceStored) =>
                /\ ~last.res.ok
                /\ last.res.err = "Invalid device id"
                /\ last.res.ops = <<"decode_login", "Device::find_by_uuid_and_user">>
                /\ users = last.pre.users
        /\ (ReachesLookups /\ DeviceStored /\ ~UserStored) =>
                /\ ~last.res.ok
                /\ last.res.err = "Device has no user associated"
                /\ last.res.ops = <<"decode_login", "Device::find_by_uuid_and_user",
                                    "User::find_by_uuid">>
                /\ users = last.pre.users

\* A context was built for the token of a stored user and a device that user owns
C20_Witness ==
    /\ last.op = "Headers"
    /\ last.res.ok
    /\ Unwrap(last.res.ctx).device.uuid = "d1"
    /\ Unwrap(last.res.ctx).user.uuid = "u1"

\* The device of the token is stored, its owner is not
C20_NoUser ==
    /\ last.op = "Headers"
    /\ ReachesLookups /\ DeviceStored /\ ~UserStored
    /\ last.res.err = "Device has no user associated"

\* The token names a stored device that another user owns
C20_ForeignDevice ==
    /\ last.op = "Headers"
    /\ ReachesLookups /\ ~DeviceStored
    /\ \E d \in last.pre.devices : d[1] = TokenClaims(last.req).device
    /\ last.res.err = "Invalid device id"

(***************************************************************************)
(* Failure reasons, effects on storage, concurrency                        *)
(***************************************************************************)
\* The request carries an Authorization header whose token decode_login rejects
LoginDecode == decode_login(access_token(Unwrap(last.req.auth)), last.pre.now)
DecodeFails == last.req.auth # None /\ ~LoginDecode.ok

\* C21: for every request whose login token fails to decode, whatever the cause
\* (bad signature, expired, not yet valid, wrong issuer, malformed), the outcome of
\* Headers is one and the same failure, "Invalid claim", reached before any lookup
\* and changing nothing: nothing in it depends on the cause
C21_OneDecodeFailure ==
    (last.op = "Headers" /\ DecodeFails) =>
        /\ last.res = Failure("Invalid claim", <<"decode_login">>, last.pre.users)
        /\ users = last.pre.users

\* A token that has expired was refused
C21_Witness ==
    /\ last.op = "Headers"
    /\ DecodeFails
    /\ LoginDecode.err = "Token has expired"
    /\ ~last.res.ok

\* The other causes: wrong issuer, malformed, and bad signature or not yet valid
C21_WrongIssuer ==
    /\ last.op = "Headers" /\ DecodeFails
    /\ SignedByServer(access_token(Unwrap(last.req.auth)))
    /\ TokenClaims(last.req).iss # Issuer("login")
C21_Malformed ==
    last.op = "Headers" /\ DecodeFails /\ LoginDecode.err = "Token is invalid"
C21_BadSignature ==
    /\ last.op = "Headers" /\ DecodeFails
    /\ access_token(Unwrap(last.req.auth)).sig # PUBLIC_ED25519_KEY
    /\ access_token(Unwrap(last.req.auth)).parts
C21_NotYetValid ==
    /\ last.op = "Headers" /\ DecodeFails
    /\ SignedByServer(access_token(Unwrap(last.req.auth)))
    /\ TokenClaims(last.req).nbf > last.pre.now + Leeway

\* Why the decode function of purpose p rejects the token at time t: the first of
\* the checks, in the order they are made, that the token fails ("" when it passes
\* the five the claim names)
Cause(token, p, t) ==
    IF ~token.parts THEN "malformed"
    ELSE IF token.sig # PUBLIC_ED25519_KEY THEN "bad signature"
    ELSE IF ~Deserializes(token.claims.ty, ClaimType(p)) THEN "other"
    ELSE IF token.claims.exp < t - Leeway THEN "expired"
    ELSE IF token.claims.nbf > t + Leeway THEN "not yet valid"
    ELSE IF token.claims.iss # Issuer(p) THEN "wrong issuer"
    ELSE ""

NamedCauses == {"malformed", "bad signature", "expired", "not yet valid", "wrong issuer"}

StoredException == Unwrap(last.pre.users[TokenClaims(last.req).sub].stamp_exception)
HasException ==
    /\ last.pre.users[TokenClaims(last.req).sub].stamp_exception # None
    /\ StoredException.parses

\* The request is one with a stale token that reaches the stamp check
StaleRequest ==
    /\ last.op = "Headers"
    /\ ReachesStampCheck(last.req, last.pre)
    /\ Stale(last.req, last.pre)

\* The sub-case of a stale request: "" when the exception lets it through
SubCase ==
    IF ~HasException THEN "none"
    ELSE IF last.req.route = None THEN "no route"
    ELSE IF last.pre.now > StoredException.expire THEN "expired"
    ELSE IF Unwrap(last.req.route) \notin StoredException.routes THEN "route"
    ELSE IF StoredException.security_stamp # TokenClaims(last.req).sstamp THEN "stamp"
    ELSE ""

\* C23 (as stated): every rejection caused by a stamp mismatch carries the same
\* reason, "Invalid security stamp", whatever the sub-case
C23_GenericReason ==
    (StaleRequest /\ ~last.res.ok) => last.res.err = "Invalid security stamp"

\* C23 (amended): a rejection caused by a stamp mismatch carries a reason that
\* names its sub-case: "Invalid security stamp" when the user has no exception,
\* "Error getting current route for stamp exception" when the request has no route
\* name, "Stamp exception is expired" when the exception has expired, "Invalid
\* security stamp: Current route and exception route do not match" when the route
\* is not covered, "Invalid security stamp for matched stamp exception" when the
\* snapshot is not the token's stamp; each sub-case is rejected
C23_ReasonPerSubCase ==
    StaleRequest =>
        /\ last.res.ok <=> SubCase = ""
        /\ SubCase = "none" => last.res.err = "Invalid security stamp"
        /\ SubCase = "no route" =>
                last.res.err = "Error getting current route for stamp exception"
        /\ SubCase = "expired" => last.res.err = "Stamp exception is expired"
        /\ SubCase = "route" =>
                last.res.err = "Invalid security stamp: Current route and exception route do not match"
        /\ SubCase = "stamp" =>
                last.res.err = "Invalid security stamp for matched stamp exception"

\* A stale token was rejected because the exception's snapshot is another stamp
C23_Witness ==
    /\ StaleRequest
    /\ SubCase = "stamp"
    /\ ~last.res.ok

\* C24 (as stated): after a request that finds the exception invalid (the route
\* not covered, or the snapshot not the token's stamp) the stored user has no
\* stamp exception
C24_InvalidCleared ==
    (StaleRequest /\ SubCase \in {"route", "stamp"}) =>
        users[TokenClaims(last.req).sub].stamp_exception = None

\* C24 (amended): a stamp exception is cleared from the user record, and the user
\* persisted, only when a request finds it expired; a request that finds it
\* invalid (route not covered, or snapshot not the token's stamp) fails without a
\* save and the stored user keeps the exception
C24_ClearedOnlyWhenExpired ==
    /\ (StaleRequest /\ SubCase \in {"route", "stamp"}) =>
            /\ ~last.res.ok
            /\ ~Did(last.res.ops, "User::save")
            /\ users = last.pre.users
            /\ users[TokenClaims(last.req).sub].stamp_exception # None
    /\ (last.op = "Headers" /\ (users # last.pre.users \/ Did(last.res.ops, "User::save"))) =>
            /\ StaleRequest /\ SubCase = "expired"
            /\ users \in {last.pre.users,
                          [last.pre.users EXCEPT ![TokenClaims(last.req).sub].stamp_exception = None]}

\* A stale token was rejected on a route the unexpired exception does not cover,
\* and the exception is still stored
C24_Witness ==
    /\ StaleRequest
    /\ SubCase = "route"
    /\ ~last.res.ok
    /\ users["u1"].stamp_exception # None

\* C25: Headers fails for every request without an Authorization header and for
\* every request whose Authorization header is not "Bearer <token>": a value
\* without the Bearer prefix is never taken as an access token
C25_BearerRequired ==
    (/\ last.op = "Headers"
     /\ \/ last.req.auth = None
        \/ Unwrap(last.req.auth).prefix # "Bearer ") => ~last.res.ok

\* No header at all: the one case of the claim the code refuses as such
C25_NoHeader ==
    /\ last.op = "Headers"
    /\ last.req.auth = None
    /\ last.res.err = "No access token provided"

\* The derivations of the chain
ChainOps == TierOps \cup {"Headers", "OrgHeaders", "from_loose"}

\* The stored records as they are now
Stored == [users |-> users, devices |-> devices, members |-> members, access |-> access]
StoredBefore ==
    [users |-> last.pre.users, devices |-> last.pre.devices, members |-> last.pre.members,
     access |-> last.pre.access]

\* The derivation met an expired stamp exception: inside it Headers reached the
\* stamp check with a stale token on a named route and found the expiry passed
MetExpiredException ==
    /\ last.op # "from_loose"
    /\ ReachesStampCheck(last.req, last.pre)
    /\ Stale(last.req, last.pre)
    /\ SubCase = "expired"

\* C26: the only write of the chain is the save that clears an expired stamp
\* exception. Every derivation leaves the stored devices, memberships and collection
\* access as they were; it changes the stored users, or calls a save at all, only
\* when it met an expired exception, and then the user is as before with the
\* exception cleared; a successful derivation, also one that accepts a stale token
\* through a valid exception, changes nothing; and no lookup, check or save is made
\* a second time
C26_OnlyExpiryWrites ==
    last.op \in ChainOps =>
        /\ [Stored EXCEPT !.users = last.pre.users] = StoredBefore
        /\ (users # last.pre.users \/ Did(last.res.ops, "User::save")) =>
                /\ MetExpiredException
                /\ users \in {last.pre.users,
                              [last.pre.users EXCEPT !["u1"].stamp_exception = None]}
        /\ last.res.ok => Stored = StoredBefore
        /\ last.op # "from_loose" =>
                \A i, j \in 1..Len(last.res.ops) :
                    last.res.ops[i] = last.res.ops[j] => i = j

\* A tier accepted a stale token through an unexpired exception and wrote nothing
C26_Witness ==
    /\ last.op \in TierOps
    /\ last.res.ok
    /\ ReachesStampCheck(last.req, last.pre)
    /\ Stale(last.req, last.pre)
    /\ Stored = StoredBefore

\* A tier met an expired exception and its save cleared it
C26_TierCleared ==
    /\ last.op \in TierOps
    /\ MetExpiredException
    /\ users # last.pre.users

\* A stale request whose user has an unexpired exception with the token's stamp as
\* its snapshot, on a named route
UsableException ==
    /\ StaleRequest
    /\ HasException
    /\ last.req.route # None
    /\ last.pre.now <= StoredException.expire
    /\ StoredException.security_stamp = TokenClaims(last.req).sstamp

\* C27: a stamp exception is not consumed by use. A stale token whose stamp is the
\* snapshot of the user's unexpired exception is accepted on a covered route and
\* the user record is left as it was, so that on the state the request leaves the
\* same token is accepted again on every covered route; on an uncovered route it is
\* rejected and the user record, exception included, is left as it was
C27_ExceptionNotConsumed ==
    UsableException =>
        /\ users = last.pre.users
        /\ Unwrap(last.req.route) \in StoredException.routes =>
                /\ last.res.ok
                /\ \A r \in StoredException.routes, save_ok \in BOOLEAN :
                        Headers_from_request([last.req EXCEPT !.route = Some(r)],
                                             DB, save_ok).ok
        /\ Unwrap(last.req.route) \notin StoredException.routes =>
                /\ ~last.res.ok
                /\ \A r \in StoredException.routes, save_ok \in BOOLEAN :
                        Headers_from_request([last.req EXCEPT !.route = Some(r)],
                                             DB, save_ok).ok

\* A stale token was accepted through an exception that covers both routes
C27_Witness ==
    /\ UsableException
    /\ StoredException.routes = Routes
    /\ last.res.ok
    /\ users["u1"].stamp_exception # None

\* A request made its corrective save: it is answered, having read the user, found
\* the exception expired and saved
Saved ==
    /\ last.op = "Headers"
    /\ Did(last.res.ops, "User::save")
    /\ last.res.users # last.pre.users

\* The user row the request saved: as it was read, just before the save, and now
RowRead == last.pre.users[TokenClaims(last.req).sub]
RowBefore == last.mid[TokenClaims(last.req).sub]
RowNow == users[TokenClaims(last.req).sub]

\* C28: the corrective save changes nothing in the stored user but the exception
\* field, under every interleaving: the stamp stored after the save is the stamp
\* stored just before it, also when another request rotated it after this request
\* read the user, and an exception another request stored after that read is
\* still stored
C28_SaveKeepsConcurrentWrites ==
    Saved =>
        /\ RowNow.security_stamp = RowBefore.security_stamp
        /\ RowBefore.stamp_exception # RowRead.stamp_exception =>
                RowNow.stamp_exception = RowBefore.stamp_exception

\* With no write of another request between the read and the save, the save
\* changes the exception field alone
C28_AloneOnlyException ==
    (Saved /\ last.mid = last.pre.users) =>
        users = [last.pre.users EXCEPT ![TokenClaims(last.req).sub].stamp_exception = None]

\* The stamp of the user was rotated between the read and the save
C28_RotatedBetween ==
    /\ Saved
    /\ RowBefore.security_stamp # RowRead.security_stamp

\* Calls of initialize_keys that have set the private key, the public key
SetPrivate == {w \in Workers : "set_private" \in DOMAIN procs[w] /\ procs[w].set_private}
SetPublic == {w \in Workers : "set_public" \in DOMAIN procs[w] /\ procs[w].set_public}
\* Calls that lost the race on the private key
LostPrivate ==
    {w \in Workers : /\ procs[w].pc = "returned"
                     /\ procs[w].err = "PRIVATE_ED25519_KEY must only be initialized once"}

\* C29: under any interleaving of concurrent initialize_keys calls the signing key
\* and the verification key come from the same call and are a matching pair: a
\* call has set the public key only after it has itself set the private key, a
\* public key that is set is the pair of the private key that is set, and a call
\* that lost the race on the private key returned an error and set no public key
C29_KeysFromOneCall ==
    /\ SetPublic \subseteq SetPrivate
    /\ IsSome(keys.pub) => IsSome(keys.priv) /\ Unwrap(keys.pub) = Unwrap(keys.priv)
    /\ \A w \in SetPublic : keys.pub = Some(procs[w].key) /\ keys.priv = Some(procs[w].key)
    /\ \A w \in LostPrivate : ~procs[w].ok /\ w \notin SetPublic /\ w \notin SetPrivate

\* Two calls raced with different keys: one set both cells, the other lost on the
\* private key
C29_Witness ==
    \E w \in SetPublic : \E v \in LostPrivate :
        /\ procs[v].key # procs[w].key
        /\ IsSome(keys.pub)

\* C30: a membership whose stored status is revoked yields no org-scoped context:
\* the status does not decode, so OrgHeaders fails, with "User status is either
\* revoked or invalid." when the stored type is recognized, and AdminHeaders,
\* ManagerHeaders, ManagerHeadersLoose, OwnerHeaders and OrgMemberHeaders fail
\* with it, whatever the stored type
C30_RevokedNeverPasses ==
    (last.op \in TierOps \cup {"OrgHeaders"} /\ FoundMember /\ StoredStatus = -1) =>
        /\ MembershipStatus_from_i32(StoredStatus) = "-"
        /\ ~last.res.ok
        /\ last.res.ctx = None
        /\ MembershipType_from_i32(StoredType) # "-" =>
                last.res.err = "User status is either revoked or invalid."

\* The owner tier was asked for a revoked membership of owner type
C30_Witness ==
    /\ last.op = "OwnerHeaders"
    /\ FoundMember
    /\ StoredStatus = -1
    /\ MembershipType_from_i32(StoredType) = "Owner"
    /\ ~last.res.ok

\* OrgHeaders itself was asked for a revoked membership
C30_OrgHeadersRevoked ==
    /\ last.op = "OrgHeaders"
    /\ FoundMember
    /\ StoredStatus = -1
    /\ MembershipType_from_i32(StoredType) # "-"

====
